---- MODULE Spec2Model ----
(***************************************************************************)
(* Execution and supervision core of effect-pipeline:                      *)
(*   - PipelineExecutor.run  (runtime engine, one Pipe, sequential nodes)  *)
(*   - Orchestrator.run      (one forked executor fiber per Deployment)    *)
(* Both publish RuntimeEvents on one shared unbounded Effect Queue.        *)
(*                                                                         *)
(* Fibers are identified by numbers: 0 is the fiber that runs              *)
(* Orchestrator.run, d >= 1 is the fiber of the d-th deployment (or, in    *)
(* the stand-alone executor specification, fiber 1 is the caller's run).   *)
(***************************************************************************)
EXTENDS Integers, Sequences, FiniteSets, TLC

\* ---------------------------------------------------------------- bounds
MaxNodes == 3
MaxDeployments == 2
MaxClusterEvents == 10

\* ---------------------------------------------------------------- values
\* currentInput starts as the JavaScript value undefined
Undefined == "undefined"

NodeNames == <<"n1", "n2", "n3", "n4", "n5">>
NodeOutputs == <<"out1", "out2", "out3", "out4", "out5">>
DeploymentNames == <<"A", "B", "C", "D">>
PipeNames == <<"A-pipe", "B-pipe", "C-pipe", "D-pipe">>
ClusterName == "test-cluster"
StandaloneFiber == 1
OrchFiber == 0

\* Error values.  text is a sequence of string fragments (their concatenation
\* is the JavaScript string); kind tells a thrown string from an Error object.
NoError == [kind |-> "none", text |-> <<>>]
StringError(s) == [kind |-> "string", text |-> <<s>>]
ErrorObject(msg) == [kind |-> "Error", text |-> msg]

\* Template-literal conversion `${error}`: a string is itself, an Error object
\* prints as "Error: <message>".
StringOf(error) ==
  IF error.kind = "Error" THEN <<"Error: ">> \o error.text ELSE error.text

\* new Error(`Node ${node.name} failed: ${error}`)
WrapNodeErrorUnwrapped(name, error) == error
WrapNodeError(name, error) ==
  ErrorObject(<<"Node ", name, " failed: ">> \o StringOf(error))

\* ---------------------------------------------------------------- events
\* RuntimeEvent, normalised to one record shape: name is nodeName,
\* pipelineName, deploymentName or clusterName according to _tag.
Event(tag, name, error) == [_tag |-> tag, name |-> name, error |-> error]
NodeStarted(n) == Event("NodeStarted", n, NoError)
NodeCompleted(n) == Event("NodeCompleted", n, NoError)
NodeErrored(n, e) == Event("NodeErrored", n, e)
PipelineStarted(p) == Event("PipelineStarted", p, NoError)
PipelineCompleted(p) == Event("PipelineCompleted", p, NoError)
PipelineErrored(p, e) == Event("PipelineErrored", p, e)
DeploymentStarted(d) == Event("DeploymentStarted", d, NoError)
DeploymentCompleted(d) == Event("DeploymentCompleted", d, NoError)
DeploymentErrored(d, e) == Event("DeploymentErrored", d, e)
ClusterStarted(c) == Event("ClusterStarted", c, NoError)
ClusterCompleted(c) == Event("ClusterCompleted", c, NoError)
ClusterErrored(c, e) == Event("ClusterErrored", c, e)

\* ---------------------------------------------------------------- nodes
\* A Node is opaque to the engine: run(input) settles with one output or one
\* error.  effect = "const" returns the node's own output, "identity" returns
\* its input, "void" returns undefined, "fail" fails with err.
MakeNode(i, effect, err) ==
  [name |-> NodeNames[i], effect |-> effect, out |-> NodeOutputs[i], err |-> err]

NodeErrors == {StringError("Test error"), ErrorObject(<<"boom">>)}

ExecNodes(i) ==
  {MakeNode(i, eff, NoError) : eff \in {"const", "identity", "void"}}
    \cup {MakeNode(i, "fail", e) : e \in NodeErrors}

ClusterNodes(i) ==
  {MakeNode(i, "const", NoError), MakeNode(i, "fail", StringError("Test error"))}

\* a node whose run never settles
NeverNode(i) == MakeNode(i, "never", NoError)

\* does node.run settle at all?
Settles(node) == node.effect # "never"

\* node.run(input) once it settles
NodeRun(node, input) ==
  CASE node.effect = "const" -> [ok |-> TRUE, value |-> node.out, error |-> NoError]
    [] node.effect = "identity" -> [ok |-> TRUE, value |-> input, error |-> NoError]
    [] node.effect = "void" -> [ok |-> TRUE, value |-> Undefined, error |-> NoError]
    [] OTHER -> [ok |-> FALSE, value |-> Undefined, error |-> node.err]

\* all node lists of length 0..n whose i-th node is drawn from the catalogue
RECURSIVE ExecNodeLists(_)
ExecNodeLists(n) ==
  IF n = 0 THEN {<<>>}
  ELSE LET shorter == ExecNodeLists(n - 1)
       IN shorter \cup {Append(s, nd) : s \in {t \in shorter : Len(t) = n - 1},
                                        nd \in ExecNodes(n)}

RECURSIVE ClusterNodeLists(_)
ClusterNodeLists(n) ==
  IF n = 0 THEN {<<>>}
  ELSE LET shorter == ClusterNodeLists(n - 1)
       IN shorter \cup {Append(s, nd) : s \in {t \in shorter : Len(t) = n - 1},
                                        nd \in ClusterNodes(n)}

\* node lists in which only the last node may never settle (nodes after one
\* that never settles are never run)
StallNodeLists(n) ==
  ClusterNodeLists(n)
    \cup {Append(s, NeverNode(Len(s) + 1)) :
            s \in {t \in ClusterNodeLists(n) : Len(t) < n}}

Pipe(name, nodes) == [name |-> name, nodes |-> nodes]
Deployment(name, pipe) == [name |-> name, pipe |-> pipe]
Cluster(name, deployments) == [name |-> name, deployments |-> deployments]

\* ---------------------------------------------------------------- state
VARIABLES
  cluster,      \* the Cluster given to the Orchestrator
  eventQueue,   \* the shared Queue<RuntimeEvent>: entries [ev, by], by = offering fiber
  exec,         \* fiber -> PipelineExecutor and the locals of its run()
  orch,         \* locals of Orchestrator.run(): pc, k, fibers, j, outcome
  fiberExit,    \* deployment fiber -> "running" | "success" | "failure" | "interrupted"
  emitted,      \* fiber -> the events it offered, in its own program order
  invoked,      \* fiber -> the node.run calls it made: [idx, input, settled, ok, value]
  plugins,      \* PluginManager.plugins: the registered plugins, in registration order
  loops,        \* the fibers forked by PluginManager.run(): status, pc, event, next
  takeLog,      \* every Queue.take that returned: [loop, entry, registered], in order
  handled,      \* every onEvent call: [plugin, entry, loop, done], in call order
  pipelineBuilder, \* the PipelineBuilder in use, the Pipes it returned, its last call
  clusterBuilder,  \* the ClusterBuilder in use, the Clusters it returned, its last call
  semanticBuilder, \* the semantic pipeline builder in use and its last call
  batchNode        \* the batch node in use: its buffer and the calls of its run

vars == <<cluster, eventQueue, exec, orch, fiberExit, emitted, invoked,
          plugins, loops, takeLog, handled, pipelineBuilder, clusterBuilder,
          semanticBuilder, batchNode>>

Pending == [status |-> "pending", error |-> NoError]
Success == [status |-> "success", error |-> NoError]
Failure(e) == [status |-> "failure", error |-> e]

\* Queue.offer on an unbounded queue: always succeeds, appends at the tail
OfferAtHead(queue, entry) == <<entry>> \o queue
Offer(queue, entry) == Append(queue, entry)

\* no builder in use: the Pipes and the Cluster are given
NoBuilder == [state |-> "none"]
NoBuilders ==
  /\ pipelineBuilder = NoBuilder
  /\ clusterBuilder = NoBuilder
  /\ semanticBuilder = NoBuilder
  /\ batchNode = NoBuilder

\* no PluginManager: nobody registered, run() never called
NoPlugins ==
  /\ plugins = <<>>
  /\ loops = <<>>
  /\ takeLog = <<>>
  /\ handled = <<>>

\* fiber f exists and has neither finished nor been interrupted
Alive(f) == f \in DOMAIN exec /\ fiberExit[f] = "running"

\* a queue with room for two events only, whose offer suspends when it is full
CanOfferBounded(queue) == Len(queue) < 2

\* Queue.unbounded: an offer is accepted whatever the queue holds
CanOffer(queue) == TRUE

\* fiber f offers event e; by and n (the event is the n-th that f offers)
\* identify the offer
Publish(f, e) ==
  /\ CanOffer(eventQueue)
  /\ eventQueue' = Offer(eventQueue, [ev |-> e, by |-> f, n |-> Len(emitted[f]) + 1])
  /\ emitted' = [emitted EXCEPT ![f] = Append(@, e)]

\* new PipelineExecutor(pipe, eventQueue), run() not yet started
NewExecutor(pipe) ==
  [pipe |-> pipe, pc |-> "start", idx |-> 0, currentInput |-> Undefined,
   result |-> Undefined, caught |-> NoError, outcome |-> Pending]

NoOrchestrator ==
  [pc |-> "idle", k |-> 0, fibers |-> <<>>, j |-> 0, outcome |-> Pending]

\* ------------------------------------------------- PipelineExecutor.run
\* a run that first checks the Pipe as the builder does and fails for one
\* that has no nodes or fewer than two
ExecStartValidating(f) ==
  /\ Alive(f)
  /\ exec[f].pc = "start"
  /\ IF Len(exec[f].pipe.nodes) < 2
       THEN /\ exec' = [exec EXCEPT
                 ![f].pc = "done",
                 ![f].outcome =
                   Failure(ErrorObject(<<"Pipeline must have at least one node">>))]
            /\ UNCHANGED <<eventQueue, emitted>>
       ELSE /\ Publish(f, PipelineStarted(exec[f].pipe.name))
            /\ exec' = [exec EXCEPT ![f].pc = "loop", ![f].idx = 1,
                                    ![f].currentInput = Undefined]
  /\ UNCHANGED <<semanticBuilder, batchNode, pipelineBuilder, clusterBuilder, plugins, loops, takeLog, handled, cluster, orch, fiberExit, invoked>>

\* offer PipelineStarted; let currentInput = undefined; enter the for loop
ExecStart(f) ==
  /\ Alive(f)
  /\ exec[f].pc = "start"
  /\ Publish(f, PipelineStarted(exec[f].pipe.name))
  /\ exec' = [exec EXCEPT ![f].pc = "loop", ![f].idx = 1,
                          ![f].currentInput = Undefined]
  /\ UNCHANGED <<semanticBuilder, batchNode, pipelineBuilder, clusterBuilder, plugins, loops, takeLog, handled, cluster, orch, fiberExit, invoked>>

\* for (const node of self.pipe.nodes): is there a node left to run?
HasNextSkipsLast(e) == e.idx < Len(e.pipe.nodes)
HasNext(e) == e.idx <= Len(e.pipe.nodes)

\* loop head with a next node: offer NodeStarted
ExecNodeStarted(f) ==
  /\ Alive(f)
  /\ exec[f].pc = "loop"
  /\ HasNext(exec[f])
  /\ Publish(f, NodeStarted(exec[f].pipe.nodes[exec[f].idx].name))
  /\ exec' = [exec EXCEPT ![f].pc = "invoke"]
  /\ UNCHANGED <<semanticBuilder, batchNode, pipelineBuilder, clusterBuilder, plugins, loops, takeLog, handled, cluster, orch, fiberExit, invoked>>

\* the input the loop hands to node.run
NodeInputAlwaysUndefined(e) == Undefined
NodeInput(e) == e.currentInput

\* a variant that starts the node in a fiber of its own and moves on to the
\* next iteration without waiting for it
ExecInvokeForked(f) ==
  /\ Alive(f)
  /\ exec[f].pc = "invoke"
  /\ invoked' = [invoked EXCEPT ![f] =
       Append(@, [idx |-> exec[f].idx, input |-> NodeInput(exec[f]),
                  settled |-> FALSE, ok |-> FALSE, value |-> Undefined])]
  /\ exec' = [exec EXCEPT ![f].pc = "loop", ![f].idx = @ + 1]
  /\ UNCHANGED <<semanticBuilder, batchNode, pipelineBuilder, clusterBuilder, plugins, loops, takeLog, handled, cluster, eventQueue, orch, fiberExit, emitted>>

\* node.run(currentInput) is called; the node is in flight
ExecInvoke(f) ==
  /\ Alive(f)
  /\ exec[f].pc = "invoke"
  /\ invoked' = [invoked EXCEPT ![f] =
       Append(@, [idx |-> exec[f].idx, input |-> NodeInput(exec[f]),
                  settled |-> FALSE, ok |-> FALSE, value |-> Undefined])]
  /\ exec' = [exec EXCEPT ![f].pc = "running"]
  /\ UNCHANGED <<semanticBuilder, batchNode, pipelineBuilder, clusterBuilder, plugins, loops, takeLog, handled, cluster, eventQueue, orch, fiberExit, emitted>>

\* the node in flight settles (success or failure)
ExecNodeSettles(f) ==
  /\ Alive(f)
  /\ exec[f].pc = "running"
  /\ Settles(exec[f].pipe.nodes[exec[f].idx])
  /\ LET call == invoked[f][Len(invoked[f])]
         r == NodeRun(exec[f].pipe.nodes[exec[f].idx], call.input)
     IN /\ invoked' = [invoked EXCEPT ![f][Len(invoked[f])] =
               [call EXCEPT !.settled = TRUE, !.ok = r.ok, !.value = r.value]]
        /\ exec' = [exec EXCEPT
               ![f].pc = IF r.ok THEN "succeeded" ELSE "catch",
               ![f].result = r.value,
               ![f].caught = r.error]
  /\ UNCHANGED <<semanticBuilder, batchNode, pipelineBuilder, clusterBuilder, plugins, loops, takeLog, handled, cluster, eventQueue, orch, fiberExit, emitted>>

\* a variant whose handler also reports the failure of the pipeline
ExecNodeErroredAndPipelineErrored(f) ==
  /\ Alive(f)
  /\ exec[f].pc = "catch"
  /\ LET node == exec[f].pipe.nodes[exec[f].idx]
         wrapped == WrapNodeError(node.name, exec[f].caught)
     IN /\ eventQueue' =
             Offer(Offer(eventQueue,
                         [ev |-> NodeErrored(node.name, exec[f].caught), by |-> f,
                          n |-> Len(emitted[f]) + 1]),
                   [ev |-> PipelineErrored(exec[f].pipe.name, wrapped), by |-> f,
                    n |-> Len(emitted[f]) + 2])
        /\ emitted' = [emitted EXCEPT ![f] =
             @ \o <<NodeErrored(node.name, exec[f].caught),
                    PipelineErrored(exec[f].pipe.name, wrapped)>>]
        /\ exec' = [exec EXCEPT ![f].pc = "done", ![f].outcome = Failure(wrapped)]
  /\ UNCHANGED <<semanticBuilder, batchNode, pipelineBuilder, clusterBuilder, plugins, loops, takeLog, handled, cluster, orch, fiberExit, invoked>>

\* a variant whose handler reports the error and carries on with the next node
ExecNodeErroredContinues(f) ==
  /\ Alive(f)
  /\ exec[f].pc = "catch"
  /\ Publish(f, NodeErrored(exec[f].pipe.nodes[exec[f].idx].name, exec[f].caught))
  /\ exec' = [exec EXCEPT ![f].pc = "loop", ![f].idx = @ + 1]
  /\ UNCHANGED <<semanticBuilder, batchNode, pipelineBuilder, clusterBuilder, plugins, loops, takeLog, handled, cluster, orch, fiberExit, invoked>>

\* catchAll handler: offer NodeErrored with the caught error, then fail with
\* the wrapped error; the for loop is left
ExecNodeErrored(f) ==
  /\ Alive(f)
  /\ exec[f].pc = "catch"
  /\ LET node == exec[f].pipe.nodes[exec[f].idx]
     IN /\ Publish(f, NodeErrored(node.name, exec[f].caught))
        /\ exec' = [exec EXCEPT
               ![f].pc = "done",
               ![f].outcome = Failure(WrapNodeError(node.name, exec[f].caught))]
  /\ UNCHANGED <<semanticBuilder, batchNode, pipelineBuilder, clusterBuilder, plugins, loops, takeLog, handled, cluster, orch, fiberExit, invoked>>

\* a variant that keeps the current value in a field of the executor, which
\* every run of it reads
ExecNodeCompletedShared(f) ==
  /\ Alive(f)
  /\ exec[f].pc = "succeeded"
  /\ Publish(f, NodeCompleted(exec[f].pipe.nodes[exec[f].idx].name))
  /\ exec' = [g \in DOMAIN exec |->
       IF g = f
         THEN [exec[g] EXCEPT !.pc = "loop", !.idx = @ + 1,
                              !.currentInput = exec[f].result]
         ELSE [exec[g] EXCEPT !.currentInput = exec[f].result]]
  /\ UNCHANGED <<semanticBuilder, batchNode, pipelineBuilder, clusterBuilder, plugins, loops, takeLog, handled, cluster, orch, fiberExit, invoked>>

\* offer NodeCompleted; currentInput = result; next iteration
ExecNodeCompleted(f) ==
  /\ Alive(f)
  /\ exec[f].pc = "succeeded"
  /\ Publish(f, NodeCompleted(exec[f].pipe.nodes[exec[f].idx].name))
  /\ exec' = [exec EXCEPT ![f].pc = "loop", ![f].idx = @ + 1,
                          ![f].currentInput = exec[f].result]
  /\ UNCHANGED <<semanticBuilder, batchNode, pipelineBuilder, clusterBuilder, plugins, loops, takeLog, handled, cluster, orch, fiberExit, invoked>>

\* loop exhausted: offer PipelineCompleted; run() succeeds
ExecPipelineCompleted(f) ==
  /\ Alive(f)
  /\ exec[f].pc = "loop"
  /\ ~HasNext(exec[f])
  /\ Publish(f, PipelineCompleted(exec[f].pipe.name))
  /\ exec' = [exec EXCEPT ![f].pc = "done", ![f].outcome = Success]
  /\ UNCHANGED <<semanticBuilder, batchNode, pipelineBuilder, clusterBuilder, plugins, loops, takeLog, handled, cluster, orch, fiberExit, invoked>>

\* ------------------------------------- stand-alone executor specification
\* A caller builds one PipelineExecutor over a Pipe of 0..MaxNodes nodes and
\* runs it once (Effect.runPromise(executor.run())).
InitExec ==
  /\ cluster = Cluster(ClusterName, <<>>)
  /\ eventQueue = <<>>
  /\ \E nodes \in ExecNodeLists(MaxNodes) :
       exec = [f \in {StandaloneFiber} |-> NewExecutor(Pipe("test-pipeline", nodes))]
  /\ orch = NoOrchestrator
  /\ fiberExit = [f \in {StandaloneFiber} |-> "running"]
  /\ emitted = [f \in {StandaloneFiber} |-> <<>>]
  /\ invoked = [f \in {StandaloneFiber} |-> <<>>]
  /\ NoPlugins
  /\ NoBuilders

NextExec ==
  \/ ExecStart(StandaloneFiber)
  \/ ExecNodeStarted(StandaloneFiber)
  \/ ExecInvoke(StandaloneFiber)
  \/ ExecNodeSettles(StandaloneFiber)
  \/ ExecNodeErrored(StandaloneFiber)
  \/ ExecNodeCompleted(StandaloneFiber)
  \/ ExecPipelineCompleted(StandaloneFiber)

SpecExec == InitExec /\ [][NextExec]_vars

\* ------------------------------------------------------ Orchestrator.run
Deployments == cluster.deployments

\* offer ClusterStarted; enter the fork loop
OrchStart ==
  /\ orch.pc = "start"
  /\ Publish(OrchFiber, ClusterStarted(cluster.name))
  /\ orch' = [orch EXCEPT !.pc = IF Len(Deployments) = 0 THEN "join" ELSE "fork",
                          !.k = 1, !.j = 1]
  /\ UNCHANGED <<semanticBuilder, batchNode, pipelineBuilder, clusterBuilder, plugins, loops, takeLog, handled, cluster, exec, fiberExit, invoked>>

\* a variant that forks the k-th executor at once, without announcing it
OrchForksUnannounced ==
  /\ orch.pc = "fork"
  /\ exec' = exec @@ (orch.k :> NewExecutor(cluster.deployments[orch.k].pipe))
  /\ fiberExit' = fiberExit @@ (orch.k :> "running")
  /\ orch' = [orch EXCEPT !.pc = "forking"]
  /\ UNCHANGED <<semanticBuilder, batchNode, pipelineBuilder, clusterBuilder, plugins, loops, takeLog, handled, cluster, eventQueue, emitted, invoked>>

\* fork loop: offer DeploymentStarted for the k-th deployment
OrchDeploymentStarted ==
  /\ orch.pc = "fork"
  /\ Publish(OrchFiber, DeploymentStarted(Deployments[orch.k].name))
  /\ orch' = [orch EXCEPT !.pc = "forking"]
  /\ UNCHANGED <<semanticBuilder, batchNode, pipelineBuilder, clusterBuilder, plugins, loops, takeLog, handled, cluster, exec, fiberExit, invoked>>

\* a variant that runs the deployments one after the other: the next executor
\* is started only when the fibers before it have finished
OrchForkSequential ==
  /\ orch.pc = "forking"
  /\ \A f \in DOMAIN fiberExit : fiberExit[f] # "running"
  /\ exec' = exec @@ (orch.k :> NewExecutor(cluster.deployments[orch.k].pipe))
  /\ fiberExit' = fiberExit @@ (orch.k :> "running")
  /\ orch' = [orch EXCEPT !.fibers = Append(@, orch.k),
                          !.k = @ + 1,
                          !.pc = IF orch.k = Len(cluster.deployments)
                                   THEN "join" ELSE "fork"]
  /\ UNCHANGED <<semanticBuilder, batchNode, pipelineBuilder, clusterBuilder, plugins, loops, takeLog, handled, cluster, eventQueue, emitted, invoked>>

\* new PipelineExecutor(deployment.pipe, eventQueue); Effect.fork; fibers.push
OrchFork ==
  /\ orch.pc = "forking"
  /\ exec' = exec @@ (orch.k :> NewExecutor(Deployments[orch.k].pipe))
  /\ fiberExit' = fiberExit @@ (orch.k :> "running")
  /\ orch' = [orch EXCEPT !.fibers = Append(@, orch.k),
                          !.k = @ + 1,
                          !.pc = IF orch.k = Len(Deployments) THEN "join" ELSE "fork"]
  /\ UNCHANGED <<semanticBuilder, batchNode, pipelineBuilder, clusterBuilder, plugins, loops, takeLog, handled, cluster, eventQueue, emitted, invoked>>

\* a variant that reports completion whatever the executor's outcome
DeploymentSucceedsWhateverOutcome(d) ==
  /\ Alive(d)
  /\ exec[d].pc = "done"
  /\ Publish(d, DeploymentCompleted(cluster.deployments[d].name))
  /\ fiberExit' = [fiberExit EXCEPT ![d] = "success"]
  /\ UNCHANGED <<semanticBuilder, batchNode, pipelineBuilder, clusterBuilder, plugins, loops, takeLog, handled, cluster, exec, orch, invoked>>

\* forked effect, success branch of flatMap: offer DeploymentCompleted
DeploymentSucceeds(d) ==
  /\ Alive(d)
  /\ exec[d].pc = "done"
  /\ exec[d].outcome.status = "success"
  /\ Publish(d, DeploymentCompleted(Deployments[d].name))
  /\ fiberExit' = [fiberExit EXCEPT ![d] = "success"]
  /\ UNCHANGED <<semanticBuilder, batchNode, pipelineBuilder, clusterBuilder, plugins, loops, takeLog, handled, cluster, exec, orch, invoked>>

\* a variant without the catchAll: the executor's failure ends the fiber
DeploymentFailsUncaught(d) ==
  /\ Alive(d)
  /\ exec[d].pc = "done"
  /\ exec[d].outcome.status = "failure"
  /\ fiberExit' = [fiberExit EXCEPT ![d] = "failure"]
  /\ UNCHANGED <<semanticBuilder, batchNode, pipelineBuilder, clusterBuilder, plugins, loops, takeLog, handled, cluster, eventQueue, exec, orch, emitted, invoked>>

\* a variant that reports the failure and interrupts the sibling fibers
DeploymentFailsInterruptsSiblings(d) ==
  /\ Alive(d)
  /\ exec[d].pc = "done"
  /\ exec[d].outcome.status = "failure"
  /\ Publish(d, DeploymentErrored(Deployments[d].name, exec[d].outcome.error))
  /\ fiberExit' = [f \in DOMAIN fiberExit |->
                     IF f = d THEN "success"
                     ELSE IF fiberExit[f] = "running" THEN "interrupted"
                     ELSE fiberExit[f]]
  /\ UNCHANGED <<semanticBuilder, batchNode, pipelineBuilder, clusterBuilder, plugins, loops, takeLog, handled, cluster, exec, orch, invoked>>

\* forked effect, catchAll handler: offer DeploymentErrored with the
\* executor's error; the handler succeeds, so the fiber ends successfully
DeploymentFails(d) ==
  /\ Alive(d)
  /\ exec[d].pc = "done"
  /\ exec[d].outcome.status = "failure"
  /\ Publish(d, DeploymentErrored(Deployments[d].name, exec[d].outcome.error))
  /\ fiberExit' = [fiberExit EXCEPT ![d] = "success"]
  /\ UNCHANGED <<semanticBuilder, batchNode, pipelineBuilder, clusterBuilder, plugins, loops, takeLog, handled, cluster, exec, orch, invoked>>

\* Fiber.join(f) resumes once f has an exit
JoinableWithoutWaiting(exit) == TRUE
Joinable(exit) == exit # "running"

\* join loop: Fiber.join of the j-th fiber.  A successful exit moves on to the
\* next fiber; any other exit fails run() with it, and the fibers still
\* running, children of the run's fiber, are interrupted with it.
OrchJoin ==
  /\ orch.pc = "join"
  /\ orch.j <= Len(orch.fibers)
  /\ Joinable(fiberExit[orch.fibers[orch.j]])
  /\ IF fiberExit[orch.fibers[orch.j]] \in {"success", "running"}
       THEN /\ orch' = [orch EXCEPT !.j = @ + 1]
            /\ UNCHANGED fiberExit
       ELSE /\ orch' = [orch EXCEPT
                 !.pc = "done",
                 !.outcome = Failure(exec[orch.fibers[orch.j]].outcome.error)]
            /\ fiberExit' = [f \in DOMAIN fiberExit |->
                 IF fiberExit[f] = "running" THEN "interrupted" ELSE fiberExit[f]]
  /\ UNCHANGED <<semanticBuilder, batchNode, pipelineBuilder, clusterBuilder, plugins, loops, takeLog, handled, cluster, eventQueue, exec, emitted, invoked>>

\* all fibers joined: offer ClusterCompleted; run() succeeds
OrchCompleted ==
  /\ orch.pc = "join"
  /\ orch.j > Len(orch.fibers)
  /\ Publish(OrchFiber, ClusterCompleted(cluster.name))
  /\ orch' = [orch EXCEPT !.pc = "done", !.outcome = Success]
  /\ UNCHANGED <<semanticBuilder, batchNode, pipelineBuilder, clusterBuilder, plugins, loops, takeLog, handled, cluster, exec, fiberExit, invoked>>

\* ----------------------------------------------- orchestrator specification
\* the most events the fiber of a deployment can offer: PipelineStarted,
\* two per node, PipelineCompleted and its terminal Deployment event
FiberEvents(nodes) == 2 * Len(nodes) + 3

\* deployment lists of length n whose fibers offer at most budget events in
\* all; the d-th deployment is named DeploymentNames[d]
RECURSIVE DeploymentLists(_, _)
DeploymentLists(n, budget) ==
  IF n = 0 THEN {<<>>}
  ELSE UNION {
         {Append(s, Deployment(DeploymentNames[n], Pipe(PipeNames[n], nodes))) :
            s \in DeploymentLists(n - 1, budget - FiberEvents(nodes))} :
         nodes \in {l \in ClusterNodeLists(MaxNodes) : FiberEvents(l) <= budget}}

InitOrch ==
  /\ \E n \in 0..MaxDeployments : \E ds \in DeploymentLists(n, MaxClusterEvents) :
       /\ cluster = Cluster(ClusterName, ds)
       /\ emitted = [f \in 0..Len(ds) |-> <<>>]
       /\ invoked = [f \in 1..Len(ds) |-> <<>>]
  /\ eventQueue = <<>>
  /\ exec = <<>>
  /\ fiberExit = <<>>
  /\ orch = [pc |-> "start", k |-> 0, fibers |-> <<>>, j |-> 0, outcome |-> Pending]
  /\ NoPlugins
  /\ NoBuilders

NextOrch ==
  \/ OrchStart
  \/ OrchDeploymentStarted
  \/ OrchFork
  \/ OrchJoin
  \/ OrchCompleted
  \/ \E d \in 1..Len(Deployments) :
       \/ ExecStart(d)
       \/ ExecNodeStarted(d)
       \/ ExecInvoke(d)
       \/ ExecNodeSettles(d)
       \/ ExecNodeErrored(d)
       \/ ExecNodeCompleted(d)
       \/ ExecPipelineCompleted(d)
       \/ DeploymentSucceeds(d)
       \/ DeploymentFails(d)

SpecOrch == InitOrch /\ [][NextOrch]_vars

\* ------------------------------------------- properties of one run (SpecExec)
IsPrefix(s, t) == Len(s) <= Len(t) /\ \A i \in 1..Len(s) : s[i] = t[i]

\* the events on the queue, without the bookkeeping of who offered them
QueueEvents == [i \in 1..Len(eventQueue) |-> eventQueue[i].ev]

TheRun == exec[StandaloneFiber]
ThePipe == TheRun.pipe

Fails(node) == node.effect = "fail"
AllSucceed(pipe) == \A i \in 1..Len(pipe.nodes) : ~Fails(pipe.nodes[i])
\* index of the first failing node, 0 if none
FirstFailing(pipe) ==
  IF AllSucceed(pipe) THEN 0
  ELSE CHOOSE k \in 1..Len(pipe.nodes) :
         /\ Fails(pipe.nodes[k])
         /\ \A i \in 1..(k - 1) : ~Fails(pipe.nodes[i])

\* NodeStarted(N1), NodeCompleted(N1), ..., NodeStarted(Nn), NodeCompleted(Nn)
RECURSIVE StartedCompleted(_, _)
StartedCompleted(nodes, n) ==
  IF n = 0 THEN <<>>
  ELSE StartedCompleted(nodes, n - 1)
         \o <<NodeStarted(nodes[n].name), NodeCompleted(nodes[n].name)>>

SuccessTrace(pipe) ==
  <<PipelineStarted(pipe.name)>>
    \o StartedCompleted(pipe.nodes, Len(pipe.nodes))
    \o <<PipelineCompleted(pipe.name)>>

FailureTrace(pipe, k) ==
  <<PipelineStarted(pipe.name)>>
    \o StartedCompleted(pipe.nodes, k - 1)
    \o <<NodeStarted(pipe.nodes[k].name),
         NodeErrored(pipe.nodes[k].name, pipe.nodes[k].err)>>

\* C1: when every node of a non-empty Pipe succeeds, the run publishes exactly
\* PipelineStarted, NodeStarted/NodeCompleted per node in list order, and
\* PipelineCompleted (2n+2 events, no others), and its outcome is success.
C1_SuccessTrace ==
  (Len(ThePipe.nodes) >= 1 /\ AllSucceed(ThePipe)) =>
    /\ IsPrefix(QueueEvents, SuccessTrace(ThePipe))
    /\ TheRun.pc = "done" =>
         /\ QueueEvents = SuccessTrace(ThePipe)
         /\ Len(eventQueue) = 2 * Len(ThePipe.nodes) + 2
         /\ TheRun.outcome = Success

C1_Witness ==
  /\ Len(ThePipe.nodes) = MaxNodes
  /\ AllSucceed(ThePipe)
  /\ TheRun.pc = "done"
  /\ Len(eventQueue) = 2 * MaxNodes + 2

\* C2: when node k is the first to fail, the run publishes exactly
\* PipelineStarted, NodeStarted/NodeCompleted for nodes 1..k-1, NodeStarted(Nk),
\* NodeErrored(Nk); nodes k+1..n are never invoked, nothing is published for
\* them, and PipelineCompleted is never published.
C2_ShortCircuit ==
  LET k == FirstFailing(ThePipe)
  IN k > 0 =>
       /\ IsPrefix(QueueEvents, FailureTrace(ThePipe, k))
       /\ TheRun.pc = "done" => QueueEvents = FailureTrace(ThePipe, k)
       /\ \A c \in 1..Len(invoked[StandaloneFiber]) :
            invoked[StandaloneFiber][c].idx <= k
       /\ \A i \in 1..Len(eventQueue) :
            eventQueue[i].ev._tag # "PipelineCompleted"

C2_Witness ==
  /\ FirstFailing(ThePipe) \in 1..(Len(ThePipe.nodes) - 1)
  /\ FirstFailing(ThePipe) > 1
  /\ TheRun.pc = "done"

\* the message "<prefix><name> failed: <error>" as string fragments, <error>
\* being the error's string conversion
FailureMessage(prefix, name, err) ==
  IF err.kind = "Error"
    THEN <<prefix, name, " failed: ", "Error: ">> \o err.text
    ELSE <<prefix, name, " failed: ">> \o err.text

\* C3 as stated: the failure message is "Step <name> failed: <error>".
C3_StepPrefix ==
  LET k == FirstFailing(ThePipe)
  IN (k > 0 /\ TheRun.pc = "done") =>
       /\ TheRun.outcome.status = "failure"
       /\ TheRun.outcome.error.text =
            FailureMessage("Step ", ThePipe.nodes[k].name, ThePipe.nodes[k].err)

\* C3 (amended): when node <name> fails with <error>, the outcome of the run
\* is a failure that is an Error with message "Node <name> failed: <error>",
\* naming the failing node only, while the NodeErrored event published for it
\* carries the original, unwrapped error value.
C3_WrappedError ==
  LET k == FirstFailing(ThePipe)
  IN (k > 0 /\ TheRun.pc = "done") =>
       /\ TheRun.outcome.status = "failure"
       /\ TheRun.outcome.error.kind = "Error"
       /\ TheRun.outcome.error.text =
            FailureMessage("Node ", ThePipe.nodes[k].name, ThePipe.nodes[k].err)
       /\ \A i \in 1..Len(ThePipe.nodes) :
            i # k => \A p \in 1..Len(TheRun.outcome.error.text) :
                       TheRun.outcome.error.text[p] # ThePipe.nodes[i].name
       /\ eventQueue[Len(eventQueue)].ev =
            NodeErrored(ThePipe.nodes[k].name, ThePipe.nodes[k].err)
       /\ eventQueue[Len(eventQueue)].ev.error # TheRun.outcome.error

C3_Witness ==
  /\ FirstFailing(ThePipe) = 2
  /\ ThePipe.nodes[2].err = StringError("Test error")
  /\ TheRun.pc = "done"
  /\ TheRun.outcome.error.text = <<"Node ", "n2", " failed: ", "Test error">>

\* the call of node i in the invocation log of fiber f
CallsOf(f, i) == {c \in 1..Len(invoked[f]) : invoked[f][c].idx = i}

\* C4: the first node is invoked with undefined, and every later node with
\* exactly the value its predecessor returned in the same run.
C4_DataThreading ==
  \A c \in 1..Len(invoked[StandaloneFiber]) :
    LET call == invoked[StandaloneFiber][c]
    IN IF call.idx = 1
         THEN call.input = Undefined
         ELSE \E b \in CallsOf(StandaloneFiber, call.idx - 1) :
                /\ invoked[StandaloneFiber][b].settled
                /\ invoked[StandaloneFiber][b].ok
                /\ call.input = invoked[StandaloneFiber][b].value

C4_Witness ==
  /\ Len(invoked[StandaloneFiber]) = 3
  /\ invoked[StandaloneFiber][2].input = "out1"
  /\ invoked[StandaloneFiber][3].input = "out1"
  /\ invoked[StandaloneFiber][3].settled

\* C5: each node is invoked at most once, only after its predecessor settled
\* successfully; at most one node is in flight; NodeStarted(N(i+1)) is never
\* published before NodeCompleted(Ni).
C5_Sequential ==
  LET log == invoked[StandaloneFiber]
  IN /\ \A i \in 1..Len(ThePipe.nodes) : Cardinality(CallsOf(StandaloneFiber, i)) <= 1
     /\ Cardinality({c \in 1..Len(log) : ~log[c].settled}) <= 1
     /\ \A c \in 1..Len(log) :
          log[c].idx > 1 =>
            \E b \in 1..(c - 1) :
              log[b].idx = log[c].idx - 1 /\ log[b].settled /\ log[b].ok
     /\ \A p \in 1..Len(eventQueue) : \A i \in 1..(Len(ThePipe.nodes) - 1) :
          eventQueue[p].ev = NodeStarted(ThePipe.nodes[i + 1].name) =>
            \E q \in 1..(p - 1) :
              eventQueue[q].ev = NodeCompleted(ThePipe.nodes[i].name)

C5_Witness ==
  /\ Len(invoked[StandaloneFiber]) = 2
  /\ invoked[StandaloneFiber][1].settled
  /\ ~invoked[StandaloneFiber][2].settled
  /\ TheRun.pc = "running"

\* ------------------------------------- properties of a cluster run (SpecOrch)
DeploymentIds == 1..Len(Deployments)
Healthy(d) == AllSucceed(Deployments[d].pipe)

\* positions of the queue that hold an event with this tag
TagPositions(tag) == {p \in 1..Len(eventQueue) : eventQueue[p].ev._tag = tag}

\* positions of the terminal event of deployment d
TerminalPositions(d, tag) ==
  {p \in TagPositions(tag) :
     eventQueue[p].by = d /\ eventQueue[p].ev.name = Deployments[d].name}

C7_FailFast ==
  (orch.pc = "done" /\ \E d \in DeploymentIds : ~Healthy(d)) =>
    orch.outcome.status = "failure"

\* the next step of the fiber of deployment d
FiberStep(d) ==
  \/ ExecStart(d)
  \/ ExecNodeStarted(d)
  \/ ExecInvoke(d)
  \/ ExecNodeSettles(d)
  \/ ExecNodeErrored(d)
  \/ ExecNodeCompleted(d)
  \/ ExecPipelineCompleted(d)
  \/ DeploymentSucceeds(d)
  \/ DeploymentFails(d)

RECURSIVE EventsBy(_, _)
EventsBy(f, queue) ==
  IF queue = <<>> THEN <<>>
  ELSE IF Head(queue).by = f
         THEN <<Head(queue).ev>> \o EventsBy(f, Tail(queue))
         ELSE EventsBy(f, Tail(queue))

\* C9: events of different deployments may interleave on the queue, but the
\* events that originate from one deployment (and those of the orchestrator)
\* are on the queue in exactly the order in which its fiber published them.
C9_PerFiberOrder ==
  \A f \in DOMAIN emitted : EventsBy(f, eventQueue) = emitted[f]

\* events of two deployments interleave
C9_Witness ==
  \E p, q, r \in 1..Len(eventQueue) :
    /\ p < q /\ q < r
    /\ eventQueue[p].by = 1 /\ eventQueue[q].by = 2 /\ eventQueue[r].by = 1
    /\ Len(emitted[1]) >= 2 /\ Len(emitted[2]) >= 2

\* C10: ClusterStarted is the first event published and ClusterCompleted the
\* last; ClusterCompleted is published only after the terminal event of every
\* deployment is on the queue.
C10_ClusterBrackets ==
  /\ Len(eventQueue) >= 1 => eventQueue[1].ev = ClusterStarted(cluster.name)
  /\ \A p \in TagPositions("ClusterCompleted") :
       /\ p = Len(eventQueue)
       /\ eventQueue[p].ev = ClusterCompleted(cluster.name)
       /\ \A d \in DeploymentIds :
            \E q \in TerminalPositions(d, "DeploymentCompleted")
                       \cup TerminalPositions(d, "DeploymentErrored") : q < p
       /\ \A d \in DOMAIN fiberExit : fiberExit[d] # "running"
  /\ orch.pc = "done" => TagPositions("ClusterCompleted") # {}

C10_Witness ==
  /\ orch.pc = "done"
  /\ Len(Deployments) = 2
  /\ eventQueue[Len(eventQueue)].ev = ClusterCompleted(cluster.name)
  /\ TerminalPositions(1, "DeploymentErrored") # {}
  /\ TerminalPositions(2, "DeploymentCompleted") # {}
  /\ Len(Deployments[2].pipe.nodes) >= 1

\* positions of the queue that hold an event offered by fiber f
PositionsBy(f) == {p \in 1..Len(eventQueue) : eventQueue[p].by = f}

\* the DeploymentStarted events on the queue, in queue order
RECURSIVE StartedNames(_)
StartedNames(queue) ==
  IF queue = <<>> THEN <<>>
  ELSE IF Head(queue).ev._tag = "DeploymentStarted"
         THEN <<Head(queue).ev.name>> \o StartedNames(Tail(queue))
         ELSE StartedNames(Tail(queue))

\* C11: DeploymentStarted events are published in the cluster's list order,
\* one per deployment, and DeploymentStarted(d) is published before the fiber
\* of d is forked, so it precedes every event of d's pipe on the queue.
C11_StartedBeforeFork ==
  /\ LET names == StartedNames(eventQueue)
     IN /\ Len(names) <= Len(Deployments)
        /\ \A i \in 1..Len(names) : names[i] = Deployments[i].name
        /\ orch.pc \in {"join", "done"} => Len(names) = Len(Deployments)
  /\ \A p \in TagPositions("DeploymentStarted") : eventQueue[p].by = OrchFiber
  /\ \A d \in DOMAIN exec :
       \E p \in TagPositions("DeploymentStarted") :
         /\ eventQueue[p].ev = DeploymentStarted(Deployments[d].name)
         /\ \A q \in PositionsBy(d) : p < q

\* the second deployment is announced while the first is already publishing
C11_Witness ==
  /\ Len(Deployments) = 2
  /\ orch.pc = "done"
  /\ \E p \in TagPositions("DeploymentStarted") :
       /\ eventQueue[p].ev.name = Deployments[2].name
       /\ \E q \in PositionsBy(1) : q < p /\ eventQueue[q].ev._tag = "NodeStarted"
       /\ \E q \in PositionsBy(2) : q > p /\ eventQueue[q].ev._tag = "NodeStarted"

\* the error the executor of deployment d fails with: the wrapper naming the
\* first failing node of its pipe
ExpectedFailure(d) ==
  LET pipe == Deployments[d].pipe
      node == pipe.nodes[FirstFailing(pipe)]
  IN ErrorObject(FailureMessage("Node ", node.name, node.err))

\* C12: every deployment publishes exactly one terminal event, never both:
\* DeploymentCompleted(d) iff its executor succeeded (PipelineCompleted was
\* published for its pipe), DeploymentErrored(d, error) iff it failed, error
\* being the executor's wrapped failure that names the failing node.
C12_OneTerminalEvent ==
  \A d \in DeploymentIds :
    LET completed == TerminalPositions(d, "DeploymentCompleted")
        errored == TerminalPositions(d, "DeploymentErrored")
    IN /\ Cardinality(completed \cup errored) <= 1
       /\ (d \in DOMAIN fiberExit /\ fiberExit[d] # "running") =>
            Cardinality(completed \cup errored) = 1
       /\ \A p \in completed :
            /\ Healthy(d)
            /\ exec[d].outcome = Success
            /\ \E q \in PositionsBy(d) :
                 q < p /\ eventQueue[q].ev = PipelineCompleted(Deployments[d].pipe.name)
       /\ \A p \in errored :
            /\ ~Healthy(d)
            /\ exec[d].outcome.status = "failure"
            /\ eventQueue[p].ev.error = exec[d].outcome.error
            /\ eventQueue[p].ev.error = ExpectedFailure(d)
            /\ \A q \in PositionsBy(d) : eventQueue[q].ev._tag # "PipelineCompleted"
       /\ (d \in DOMAIN exec /\ exec[d].outcome.status = "success"
             /\ fiberExit[d] # "running") => completed # {}
       /\ (d \in DOMAIN exec /\ exec[d].outcome.status = "failure"
             /\ fiberExit[d] # "running") => errored # {}

C12_Witness ==
  /\ Len(Deployments) = 2
  /\ orch.pc = "done"
  /\ TerminalPositions(1, "DeploymentCompleted") # {}
  /\ \E p \in TerminalPositions(2, "DeploymentErrored") :
       eventQueue[p].ev.error.text = <<"Node ", "n1", " failed: ", "Test error">>

\* C13: no run ever publishes PipelineErrored or ClusterErrored, whatever
\* nodes fail: a node failure shows only as NodeErrored and DeploymentErrored.
C13_NoPipelineOrClusterErrored ==
  /\ TagPositions("PipelineErrored") = {}
  /\ TagPositions("ClusterErrored") = {}
  /\ \A p \in 1..Len(eventQueue) :
       eventQueue[p].ev.error # NoError =>
         eventQueue[p].ev._tag \in {"NodeErrored", "DeploymentErrored"}
  /\ \A d \in DOMAIN exec :
       exec[d].outcome.status = "failure" =>
         \E p \in PositionsBy(d) : eventQueue[p].ev._tag = "NodeErrored"

\* every deployment of the cluster has failed and the run is over
C13_Witness ==
  /\ Len(Deployments) = 2
  /\ orch.pc = "done"
  /\ \A d \in DeploymentIds : exec[d].outcome.status = "failure"
  /\ Cardinality(TagPositions("NodeErrored")) = 2
  /\ Cardinality(TagPositions("DeploymentErrored")) = 2

\* ------------------------------ cluster runs with nodes that may never settle
MaxStallEvents == 10

\* the most events a deployment can cause when its pipe may hang: the
\* orchestrator's DeploymentStarted, then the fiber's events, which for a
\* pipe that hangs are PipelineStarted, two per node before the first node
\* that never settles, and NodeStarted for that one
StallEvents(nodes) ==
  LET stuck == {i \in 1..Len(nodes) : ~Settles(nodes[i])}
  IN IF stuck = {} THEN 1 + FiberEvents(nodes)
     ELSE 1 + 2 * (CHOOSE i \in stuck : \A j \in stuck : i <= j)

RECURSIVE StallDeploymentLists(_, _)
StallDeploymentLists(n, budget) ==
  IF n = 0 THEN {<<>>}
  ELSE UNION {
         {Append(s, Deployment(DeploymentNames[n], Pipe(PipeNames[n], nodes))) :
            s \in StallDeploymentLists(n - 1, budget - StallEvents(nodes))} :
         nodes \in {l \in StallNodeLists(MaxNodes) : StallEvents(l) <= budget}}

InitStall ==
  /\ \E n \in 0..MaxDeployments : \E ds \in StallDeploymentLists(n, MaxStallEvents) :
       /\ cluster = Cluster(ClusterName, ds)
       /\ emitted = [f \in 0..Len(ds) |-> <<>>]
       /\ invoked = [f \in 1..Len(ds) |-> <<>>]
  /\ eventQueue = <<>>
  /\ exec = <<>>
  /\ fiberExit = <<>>
  /\ orch = [pc |-> "start", k |-> 0, fibers |-> <<>>, j |-> 0, outcome |-> Pending]
  /\ NoPlugins
  /\ NoBuilders

\* the next step of the fiber that runs Orchestrator.run
OrchStep ==
  \/ OrchStart
  \/ OrchDeploymentStarted
  \/ OrchFork
  \/ OrchJoin
  \/ OrchCompleted

\* The fiber scheduler runs every fiber that can take a step: weak fairness
\* for the orchestrator's fiber and for each deployment fiber.
SpecStallFair ==
  /\ InitStall
  /\ [][NextOrch]_vars
  /\ WF_vars(OrchStep)
  /\ \A d \in 1..MaxDeployments : WF_vars(FiberStep(d))

AllSettle(pipe) == \A i \in 1..Len(pipe.nodes) : Settles(pipe.nodes[i])
HasTerminalEvent(d) ==
  TerminalPositions(d, "DeploymentCompleted")
    \cup TerminalPositions(d, "DeploymentErrored") # {}

C15_StallIsLocal ==
  \A d \in 1..MaxDeployments :
    (d \in DeploymentIds /\ AllSettle(Deployments[d].pipe)) ~> HasTerminalEvent(d)

\* the first deployment is stalled in its node and the second one has finished
C15_Witness ==
  /\ Len(Deployments) = 2
  /\ ~AllSettle(Deployments[1].pipe)
  /\ 1 \in DOMAIN exec /\ exec[1].pc = "running"
  /\ ~Settles(exec[1].pipe.nodes[exec[1].idx])
  /\ Len(Deployments[2].pipe.nodes) = 1
  /\ HasTerminalEvent(2)
  /\ orch.pc = "join" /\ orch.j = 1

\* ------------------------------------------------ EventBus and PluginManager
MaxPlugins == 2
MaxLoops == 2
MaxPublished == 3
\* the most handler invocations one round of events can cause: the number of
\* plugins times the number of loops
MaxHandlers == 4

LoggingPlugin == "console-logger"
PluginNames == <<"counter", "metrics", LoggingPlugin, "tracing">>

\* plugins whose handler is one synchronous step: the counter of the test
\* (count += 1, then Effect.succeed) and LoggingPlugin (Effect.sync); the
\* handlers of the others are effects with points of suspension
SingleStep(plugin) == plugin \in {"counter", LoggingPlugin}
\* the events the caller publishes, in turn
BusEvents == <<NodeStarted("x"), PipelineCompleted("p")>>
\* the fiber that builds the bus and the manager and publishes on the bus
CallerFiber == 0

NoEntry == [ev |-> Event("none", "", NoError), by |-> 0, n |-> 0]

\* the fiber forked by PluginManager.run: about to take, nothing in flight
NewLoop == [status |-> "running", pc |-> "take", event |-> NoEntry,
            next |-> 0, active |-> 0]

\* a take that hands out the oldest event and leaves it in the queue
PollKeeps(queue) == [entry |-> Head(queue), rest |-> queue]

\* Queue.take on a non-empty queue: the oldest event, removed from the queue
Poll(queue) == [entry |-> Head(queue), rest |-> Tail(queue)]

\* a loop that takes one event only (no Effect.forever)
LoopTakeOnce(l) ==
  /\ l \in DOMAIN loops
  /\ loops[l].status = "running"
  /\ loops[l].pc = "take"
  /\ \A i \in DOMAIN takeLog : takeLog[i].loop # l
  /\ eventQueue # <<>>
  /\ eventQueue' = Poll(eventQueue).rest
  /\ takeLog' = Append(takeLog, [loop |-> l, entry |-> Poll(eventQueue).entry,
                                 registered |-> Len(plugins)])
  /\ loops' = [loops EXCEPT ![l] =
                 [@ EXCEPT !.pc = IF plugins = <<>> THEN "take" ELSE "dispatch",
                           !.event = Poll(eventQueue).entry,
                           !.next = 1]]
  /\ UNCHANGED <<semanticBuilder, batchNode, pipelineBuilder, clusterBuilder, plugins, handled, cluster, exec, orch, fiberExit, emitted, invoked>>

\* this.bus.take() in loop l: suspended while the queue is empty; then
\* Effect.forEach starts over this.plugins (done at once when there are none)
LoopTake(l) ==
  /\ l \in DOMAIN loops
  /\ loops[l].status = "running"
  /\ loops[l].pc = "take"
  /\ eventQueue # <<>>
  /\ eventQueue' = Poll(eventQueue).rest
  /\ takeLog' = Append(takeLog, [loop |-> l, entry |-> Poll(eventQueue).entry,
                                 registered |-> Len(plugins)])
  /\ loops' = [loops EXCEPT ![l] =
                 [@ EXCEPT !.pc = IF plugins = <<>> THEN "take" ELSE "dispatch",
                           !.event = Poll(eventQueue).entry,
                           !.next = 1]]
  /\ UNCHANGED <<semanticBuilder, batchNode, pipelineBuilder, clusterBuilder, plugins, handled, cluster, exec, orch, fiberExit, emitted, invoked>>

\* a forEach with unbounded concurrency: the next handler starts while the
\* previous one is still running
HandlerStartConcurrent(l) ==
  /\ l \in DOMAIN loops
  /\ loops[l].status = "running"
  /\ loops[l].pc = "dispatch"
  /\ loops[l].next <= Len(plugins)
  /\ handled' = Append(handled, [plugin |-> plugins[loops[l].next],
                                 entry |-> loops[l].event, loop |-> l,
                                 at |-> loops[l].next])
  /\ loops' = [loops EXCEPT ![l] = [@ EXCEPT !.next = @ + 1, !.active = @ + 1]]
  /\ UNCHANGED <<semanticBuilder, batchNode, pipelineBuilder, clusterBuilder, plugins, takeLog, cluster, eventQueue, exec, orch, fiberExit,
                 emitted, invoked>>

\* p.onEvent(event) for the next plugin, once no handler is running
HandlerStart(l) ==
  /\ l \in DOMAIN loops
  /\ loops[l].status = "running"
  /\ loops[l].pc = "dispatch"
  /\ loops[l].active = 0
  /\ loops[l].next <= Len(plugins)
  /\ handled' = Append(handled, [plugin |-> plugins[loops[l].next],
                                 entry |-> loops[l].event, loop |-> l,
                                 at |-> loops[l].next])
  /\ loops' = [loops EXCEPT ![l] = [@ EXCEPT !.next = @ + 1, !.active = @ + 1]]
  /\ UNCHANGED <<semanticBuilder, batchNode, pipelineBuilder, clusterBuilder, plugins, takeLog, cluster, eventQueue, exec, orch, fiberExit,
                 emitted, invoked>>

\* the running handler finishes; after the last plugin Effect.forever goes
\* back to this.bus.take()
HandlerEnd(l) ==
  /\ l \in DOMAIN loops
  /\ loops[l].status = "running"
  /\ loops[l].active > 0
  /\ loops' = [loops EXCEPT ![l] =
                 [@ EXCEPT !.active = @ - 1,
                           !.pc = IF loops[l].active = 1 /\ loops[l].next > Len(plugins)
                                    THEN "take" ELSE @]]
  /\ UNCHANGED <<semanticBuilder, batchNode, pipelineBuilder, clusterBuilder, plugins, takeLog, handled, cluster, eventQueue, exec, orch,
                 fiberExit, emitted, invoked>>

\* loop l is inside a handler that has no point at which its fiber can be
\* interrupted
InSingleStep(l) ==
  /\ loops[l].active > 0
  /\ SingleStep(plugins[loops[l].next - 1])

\* an interruption that reaches every fiber of the program
InterruptEverything(l) ==
  /\ l \in DOMAIN loops
  /\ loops[l].status = "running"
  /\ ~InSingleStep(l)
  /\ loops' = [loops EXCEPT ![l] = [@ EXCEPT !.status = "interrupted"]]
  /\ fiberExit' = [f \in DOMAIN fiberExit |->
                     IF fiberExit[f] = "running" THEN "interrupted" ELSE fiberExit[f]]
  /\ UNCHANGED <<semanticBuilder, batchNode, pipelineBuilder, clusterBuilder, plugins, takeLog, handled, cluster, eventQueue, exec, orch,
                 emitted, invoked>>

\* an interruption that cuts the loop's fiber wherever it stands, inside a
\* synchronous step too
InterruptAnywhere(l) ==
  /\ l \in DOMAIN loops
  /\ loops[l].status = "running"
  /\ loops' = [loops EXCEPT ![l] = [@ EXCEPT !.status = "interrupted"]]
  /\ UNCHANGED <<semanticBuilder, batchNode, pipelineBuilder, clusterBuilder, plugins, takeLog, handled, cluster, eventQueue, exec, orch,
                 fiberExit, emitted, invoked>>

\* Fiber.interrupt(fiber) on the fiber returned by PluginManager.run: it
\* takes effect where the fiber is suspended, never inside a synchronous step
Interrupt(l) ==
  /\ l \in DOMAIN loops
  /\ loops[l].status = "running"
  /\ ~InSingleStep(l)
  /\ loops' = [loops EXCEPT ![l] = [@ EXCEPT !.status = "interrupted"]]
  /\ UNCHANGED <<semanticBuilder, batchNode, pipelineBuilder, clusterBuilder, plugins, takeLog, handled, cluster, eventQueue, exec, orch,
                 fiberExit, emitted, invoked>>

\* the steps of the fiber forked by PluginManager.run
LoopStep(l) ==
  \/ LoopTake(l)
  \/ HandlerStart(l)
  \/ HandlerEnd(l)

\* bus.publish(event) by the caller
BusPublish ==
  /\ Len(emitted[CallerFiber]) < MaxPublished
  /\ Publish(CallerFiber, BusEvents[(Len(emitted[CallerFiber]) % Len(BusEvents)) + 1])
  /\ UNCHANGED <<semanticBuilder, batchNode, pipelineBuilder, clusterBuilder, plugins, loops, takeLog, handled, cluster, exec, orch, fiberExit,
                 invoked>>

\* a manager with its plugins registered and run() called, on an empty bus
Registered ==
  /\ \E k \in 0..MaxPlugins : plugins = SubSeq(PluginNames, 1, k)
  /\ \E m \in 0..MaxLoops : loops = [l \in 1..m |-> NewLoop]
  /\ Len(plugins) * Len(loops) <= MaxHandlers
  /\ takeLog = <<>>
  /\ handled = <<>>

InitBus ==
  /\ Registered
  /\ NoBuilders
  /\ cluster = Cluster(ClusterName, <<>>)
  /\ eventQueue = <<>>
  /\ exec = <<>>
  /\ fiberExit = <<>>
  /\ orch = NoOrchestrator
  /\ emitted = [f \in {CallerFiber} |-> <<>>]
  /\ invoked = <<>>

NextBus ==
  \/ BusPublish
  \/ \E l \in 1..MaxLoops :
       \/ LoopTake(l)
       \/ HandlerStart(l)
       \/ HandlerEnd(l)
       \/ Interrupt(l)

SpecBus == InitBus /\ [][NextBus]_vars

\* The loop's fiber is scheduled whenever it can take a step, and a handler
\* that was started terminates.
SpecBusFair == SpecBus /\ \A l \in 1..MaxLoops : WF_vars(LoopStep(l))

\* ------------------------------- a cluster run on a bus with plugin loops
MaxCliEvents == 7

\* the manager of the command line: LoggingPlugin registered, run() called once
CliManager ==
  /\ plugins = <<LoggingPlugin>>
  /\ loops = <<NewLoop>>
  /\ takeLog = <<>>
  /\ handled = <<>>

\* orchestrator.run on a queue nobody reads, or after EventBus.make,
\* new PluginManager, register and run
InitCli ==
  /\ NoPlugins \/ CliManager
  /\ NoBuilders
  /\ \E n \in 0..MaxDeployments : \E ds \in DeploymentLists(n, MaxCliEvents) :
       /\ cluster = Cluster(ClusterName, ds)
       /\ emitted = [f \in 0..Len(ds) |-> <<>>]
       /\ invoked = [f \in 1..Len(ds) |-> <<>>]
  /\ eventQueue = <<>>
  /\ exec = <<>>
  /\ fiberExit = <<>>
  /\ orch = [pc |-> "start", k |-> 0, fibers |-> <<>>, j |-> 0, outcome |-> Pending]

NextCli ==
  \/ NextOrch
  \/ \E l \in DOMAIN loops :
       \/ LoopTake(l)
       \/ HandlerStart(l)
       \/ HandlerEnd(l)
       \/ Interrupt(l)

SpecCli == InitCli /\ [][NextCli]_vars

SpecCliFair ==
  /\ SpecCli
  /\ WF_vars(OrchStep)
  /\ \A d \in 1..MaxDeployments : WF_vars(FiberStep(d))
  /\ WF_vars(LoopStep(1))

RECURSIVE TotalEmitted(_)
TotalEmitted(fs) ==
  IF fs = {} THEN 0
  ELSE LET f == CHOOSE x \in fs : TRUE
       IN Len(emitted[f]) + TotalEmitted(fs \ {f})

\* the fiber of deployment d is about to offer an event
FiberAtOffer(d) ==
  /\ Alive(d)
  /\ exec[d].pc \in {"start", "loop", "catch", "succeeded", "done"}

\* the orchestrator's fiber is about to offer an event
OrchAtOffer ==
  \/ orch.pc \in {"start", "fork"}
  \/ orch.pc = "join" /\ orch.j > Len(orch.fibers)

TakenBy(l) ==
  LET mine == SelectSeq(takeLog, LAMBDA t : t.loop = l)
  IN [i \in DOMAIN mine |-> mine[i].entry]

TakenEntries == [i \in DOMAIN takeLog |-> takeLog[i].entry]

\* the entries of the caller's offers, in the order of the offers
PublishedEntries ==
  [n \in 1..Len(emitted[CallerFiber]) |->
     [ev |-> emitted[CallerFiber][n], by |-> CallerFiber, n |-> n]]

Range(seq) == {seq[i] : i \in DOMAIN seq}

HandledBy(l) ==
  LET mine == SelectSeq(handled, LAMBDA h : h.loop = l)
  IN [i \in DOMAIN mine |-> [plugin |-> mine[i].plugin, entry |-> mine[i].entry]]

\* every plugin in registration order for the first entry, then for the next
RECURSIVE ExpectedDispatch(_)
ExpectedDispatch(entries) ==
  IF entries = <<>> THEN <<>>
  ELSE [p \in 1..Len(plugins) |-> [plugin |-> plugins[p], entry |-> Head(entries)]]
         \o ExpectedDispatch(Tail(entries))

\* C18: the loop handles one event at a time: it invokes the plugins in
\* registration order for the event it took, never has two handlers running,
\* and takes the next event only when the last plugin has finished the
\* current one.
C18_OneEventAtATime ==
  /\ [](\A l \in DOMAIN loops :
          /\ loops[l].active <= 1
          /\ IsPrefix(HandledBy(l), ExpectedDispatch(TakenBy(l)))
          /\ Len(HandledBy(l)) >= (Len(TakenBy(l)) - 1) * Len(plugins)
          /\ loops[l].active = 1 =>
               /\ HandledBy(l) # <<>>
               /\ HandledBy(l)[Len(HandledBy(l))].entry = loops[l].event)
  /\ [][\A l \in DOMAIN loops :
          TakenBy(l)' # TakenBy(l) =>
            /\ loops[l].active = 0
            /\ HandledBy(l) = ExpectedDispatch(TakenBy(l))]_vars

\* one loop, two plugins: both events went to both plugins and the loop is
\* back at its take
C18_Witness ==
  /\ Len(loops) = 1
  /\ Len(plugins) = 2
  /\ Len(TakenBy(1)) = 2
  /\ HandledBy(1) = ExpectedDispatch(TakenBy(1))
  /\ loops[1].pc = "take" /\ loops[1].active = 0
  /\ loops[1].status = "running"

\* the entries plugin number p was invoked with, in the order of the invocations
SeenBy(p) ==
  LET mine == SelectSeq(handled, LAMBDA h : h.plugin = plugins[p])
  IN [i \in DOMAIN mine |-> mine[i].entry]

\* C19: with one loop as the only reader, every published event is
\* eventually handed to every registered plugin unless the loop is
\* interrupted first, and each plugin is invoked with the events exactly once
\* each and in publication order.
C19_EveryEventToEveryPlugin ==
  /\ [](Len(loops) = 1 =>
          \A p \in DOMAIN plugins : IsPrefix(SeenBy(p), PublishedEntries))
  /\ \A n \in 1..MaxPublished : \A p \in 1..MaxPlugins :
       (Len(loops) = 1 /\ n <= Len(emitted[CallerFiber]) /\ p <= Len(plugins))
         ~> (/\ Len(loops) = 1 /\ n <= Len(emitted[CallerFiber]) /\ p <= Len(plugins)
             /\ \/ loops[1].status = "interrupted"
                \/ PublishedEntries[n] \in Range(SeenBy(p)))

\* the loop still runs and both plugins have seen all three events
C19_Witness ==
  /\ Len(loops) = 1 /\ loops[1].status = "running"
  /\ Len(plugins) = 2
  /\ Len(PublishedEntries) = 3
  /\ SeenBy(1) = PublishedEntries
  /\ SeenBy(2) = PublishedEntries

\* the last event fiber f has offered is one of the given tags
LastEmitted(f, tags) ==
  /\ emitted[f] # <<>>
  /\ emitted[f][Len(emitted[f])]._tag \in tags

Interrupted(l) == l \in DOMAIN loops /\ loops[l].status = "interrupted"

\* C20: interrupting the loop's fiber stops its dispatch and nothing else:
\* an interrupted loop takes no event and starts no handler, invocations
\* already made stay made, the interruption changes no executor, no fiber and
\* not the queue, no deployment fiber is ever interrupted, and after the
\* interruption the executors and the join still run to completion, every
\* event they offer staying in the queue.
C20_InterruptStopsDispatchOnly ==
  /\ [][/\ IsPrefix(handled, handled')
        /\ \A l \in DOMAIN loops :
             /\ Interrupted(l) =>
                  /\ Interrupted(l)'
                  /\ HandledBy(l)' = HandledBy(l)
                  /\ TakenBy(l)' = TakenBy(l)
                  /\ IsPrefix(eventQueue, eventQueue')
             /\ (~Interrupted(l) /\ Interrupted(l)') =>
                  UNCHANGED <<eventQueue, exec, orch, fiberExit, emitted, invoked,
                              handled, takeLog>>]_vars
  /\ [](/\ \A d \in DOMAIN fiberExit : fiberExit[d] # "interrupted"
        /\ Len(takeLog) + Len(eventQueue) = TotalEmitted(DOMAIN emitted))
  /\ Interrupted(1) ~>
       (/\ orch.pc = "done" /\ orch.outcome = Success
        /\ LastEmitted(OrchFiber, {"ClusterCompleted"})
        /\ \A d \in DeploymentIds :
             LastEmitted(d, {"DeploymentCompleted", "DeploymentErrored"}))

\* the loop was interrupted after a handler invocation, with two executors
\* in flight and the orchestrator in its join
C20_Witness ==
  /\ Interrupted(1)
  /\ handled # <<>>
  /\ orch.pc = "join" /\ orch.j = 1
  /\ Len(Deployments) = 2
  /\ 1 \in DOMAIN exec /\ Alive(1) /\ exec[1].pc = "loop"
  /\ 2 \in DOMAIN exec /\ Alive(2)

\* the plugin whose handler loop l started last
CurrentPlugin(l) == plugins[loops[l].next - 1]

MaxBuilds == 2
MaxNameLen == 1

\* names are strings of blanks and letters, "" included
RECURSIVE NamesUpTo(_)
NamesUpTo(n) ==
  IF n = 0 THEN {<<>>}
  ELSE LET shorter == NamesUpTo(n - 1)
       IN shorter \cup {Append(s, c) : s \in {t \in shorter : Len(t) = n - 1},
                                       c \in {" ", "t"}}

NodeKinds == {"ingress", "transform", "egress", "duplex"}

\* the nodes handed to the builder: one object per kind and a second ingress
\* and egress, each with its own name
BuilderNodes ==
  {[kind |-> k, name |-> <<"test-", k>>] : k \in NodeKinds}
    \cup {[kind |-> k, name |-> <<"other-", k>>] : k \in {"ingress", "egress"}}

NoThrow == <<>>
NoNode == [kind |-> "none", name |-> <<>>]

\* new PipelineBuilder(name): no node yet
NewPipelineBuilder(name) ==
  [state |-> "open", name |-> name, nodes |-> <<>>, appended |-> <<>>,
   pipes |-> <<>>, last |-> [op |-> "pipeline", node |-> NoNode, thrown |-> NoThrow]]

\* pipeline(name): the name is taken as it is
PipelineNew(name) ==
  /\ pipelineBuilder = NoBuilder
  /\ pipelineBuilder' = NewPipelineBuilder(name)
  /\ UNCHANGED <<semanticBuilder, batchNode, clusterBuilder, plugins, loops, takeLog, handled, cluster,
                 eventQueue, exec, orch, fiberExit, emitted, invoked>>

\* a push that puts the node in front of the others
PushFront(array, node) == <<node>> \o array

\* this.nodes.push(node)
Push(array, node) == Append(array, node)

\* from, through, to: throw when the node's kind is not among the expected
\* ones, else push the node; expected is the wording of the message
Append3(op, expected, kinds, node) ==
  /\ pipelineBuilder # NoBuilder
  /\ Len(pipelineBuilder.nodes) < MaxNodes
  /\ pipelineBuilder' =
       IF node.kind \notin kinds
         THEN [pipelineBuilder EXCEPT
                 !.last = [op |-> op, node |-> node,
                           thrown |-> <<"Expected ", expected, " node, got ", node.kind>>]]
         ELSE [pipelineBuilder EXCEPT
                 !.nodes = Push(@, node),
                 !.appended = Append(@, node),
                 !.last = [op |-> op, node |-> node, thrown |-> NoThrow]]
  /\ UNCHANGED <<semanticBuilder, batchNode, clusterBuilder, plugins, loops, takeLog, handled, cluster,
                 eventQueue, exec, orch, fiberExit, emitted, invoked>>

From(node) == Append3("from", "ingress", {"ingress"}, node)

\* a through that takes a node of any kind
ThroughUnchecked(node) == Append3("through", "transform or duplex", NodeKinds, node)

Through(node) ==
  Append3("through", "transform or duplex", {"transform", "duplex"}, node)

To(node) == Append3("to", "egress", {"egress"}, node)

\* the checks of build() with the last node looked at before the first
BuildErrorEndFirst(nodes) ==
  IF Len(nodes) = 0 THEN <<"Pipeline must have at least one node">>
  ELSE IF nodes[Len(nodes)].kind # "egress"
    THEN <<"Pipeline must end with an egress node">>
  ELSE IF nodes[1].kind # "ingress"
    THEN <<"Pipeline must start with an ingress node">>
  ELSE NoThrow

\* the three checks of build(), in their order
BuildError(nodes) ==
  IF Len(nodes) = 0 THEN <<"Pipeline must have at least one node">>
  ELSE IF nodes[1].kind # "ingress"
    THEN <<"Pipeline must start with an ingress node">>
  ELSE IF nodes[Len(nodes)].kind # "egress"
    THEN <<"Pipeline must end with an egress node">>
  ELSE NoThrow

\* build(): throw, or return { name: this.name, nodes: this.nodes }; the
\* Pipe's nodes are the builder's own array, not a copy of it (returned is
\* what the array held when the Pipe was returned)
Build ==
  /\ pipelineBuilder # NoBuilder
  /\ Len(pipelineBuilder.pipes) < MaxBuilds
  /\ LET error == BuildError(pipelineBuilder.nodes)
     IN pipelineBuilder' =
          IF error # NoThrow
            THEN [pipelineBuilder EXCEPT
                    !.last = [op |-> "build", node |-> NoNode, thrown |-> error]]
            ELSE [pipelineBuilder EXCEPT
                    !.pipes = Append(@, [name |-> pipelineBuilder.name,
                                         nodes |-> "this.nodes",
                                         returned |-> pipelineBuilder.nodes]),
                    !.last = [op |-> "build", node |-> NoNode, thrown |-> NoThrow]]
  /\ UNCHANGED <<semanticBuilder, batchNode, clusterBuilder, plugins, loops, takeLog, handled, cluster,
                 eventQueue, exec, orch, fiberExit, emitted, invoked>>

\* the Pipe returned by the i-th successful build, as it is now
BuiltPipe(i) == Pipe(pipelineBuilder.pipes[i].name, pipelineBuilder.nodes)

InitPipelineBuilder ==
  /\ NoBuilders
  /\ NoPlugins
  /\ cluster = Cluster(ClusterName, <<>>)
  /\ eventQueue = <<>>
  /\ exec = <<>>
  /\ fiberExit = <<>>
  /\ orch = NoOrchestrator
  /\ emitted = <<>>
  /\ invoked = <<>>

NextPipelineBuilder ==
  \/ \E name \in NamesUpTo(MaxNameLen) : PipelineNew(name)
  \/ \E node \in BuilderNodes :
       \/ From(node)
       \/ Through(node)
       \/ To(node)
  \/ Build

SpecPipelineBuilder == InitPipelineBuilder /\ [][NextPipelineBuilder]_vars

\* ------------------------------------------------- claims on PipelineBuilder
BuilderOpen == pipelineBuilder # NoBuilder

\* an ingress first, an egress last, transform or duplex nodes in between
ValidSequence(nodes) ==
  /\ Len(nodes) >= 2
  /\ nodes[1].kind = "ingress"
  /\ nodes[Len(nodes)].kind = "egress"
  /\ \A i \in 2..(Len(nodes) - 1) : nodes[i].kind \in {"transform", "duplex"}

LastPipe == pipelineBuilder.pipes[Len(pipelineBuilder.pipes)]

\* C22: when the nodes accepted by from, through and to form a valid
\* sequence, build() does not throw and returns a Pipe with the builder's
\* name whose nodes are those nodes, the same objects in the same order.
C22_ValidBuilds ==
  (BuilderOpen /\ ValidSequence(pipelineBuilder.appended)) =>
     /\ BuildError(pipelineBuilder.nodes) = NoThrow
     /\ pipelineBuilder.last.op = "build" =>
          /\ pipelineBuilder.last.thrown = NoThrow
          /\ pipelineBuilder.pipes # <<>>
          /\ LastPipe.name = pipelineBuilder.name
          /\ LastPipe.returned = pipelineBuilder.appended
          /\ BuiltPipe(Len(pipelineBuilder.pipes)).nodes = pipelineBuilder.appended

\* the pipeline of the test: from(mockIngress).through(mockTransform)
\* .to(mockEgress).build()
C22_Witness ==
  /\ BuilderOpen
  /\ pipelineBuilder.last.op = "build"
  /\ pipelineBuilder.appended =
       <<[kind |-> "ingress", name |-> <<"test-", "ingress">>],
         [kind |-> "transform", name |-> <<"test-", "transform">>],
         [kind |-> "egress", name |-> <<"test-", "egress">>]>>
  /\ Len(pipelineBuilder.pipes) = 1
  /\ LastPipe.returned = pipelineBuilder.appended

\* C23: build() throws "at least one node" with no node, else "must start
\* with an ingress node" when the first node is no ingress, else "must end
\* with an egress node" when the last is no egress, in this order; a build
\* that throws returns no Pipe, one that does not throw returns one.
C23_BuildRejections ==
  /\ [](BuilderOpen /\ pipelineBuilder.last.op = "build" =>
          LET accepted == pipelineBuilder.appended
          IN pipelineBuilder.last.thrown =
               IF accepted = <<>>
                 THEN <<"Pipeline must have at least one node">>
               ELSE IF accepted[1].kind # "ingress"
                 THEN <<"Pipeline must start with an ingress node">>
               ELSE IF accepted[Len(accepted)].kind # "egress"
                 THEN <<"Pipeline must end with an egress node">>
               ELSE NoThrow)
  /\ [][(BuilderOpen /\ BuilderOpen' /\ pipelineBuilder'.last.op = "build") =>
          IF pipelineBuilder'.last.thrown # NoThrow
            THEN pipelineBuilder'.pipes = pipelineBuilder.pipes
            ELSE \/ Len(pipelineBuilder'.pipes) = Len(pipelineBuilder.pipes) + 1
                 \/ UNCHANGED pipelineBuilder]_vars

\* pipeline("p").through(t).to(e).build(): the first node is no ingress
C23_Witness ==
  /\ BuilderOpen
  /\ pipelineBuilder.last.op = "build"
  /\ Len(pipelineBuilder.appended) = 2
  /\ pipelineBuilder.appended[1].kind = "transform"
  /\ pipelineBuilder.appended[2].kind = "egress"
  /\ pipelineBuilder.last.thrown = <<"Pipeline must start with an ingress node">>
  /\ pipelineBuilder.pipes = <<>>

ExpectedKinds(op) ==
  CASE op = "from" -> {"ingress"}
    [] op = "through" -> {"transform", "duplex"}
    [] op = "to" -> {"egress"}
    [] OTHER -> {}

ExpectedWording(op) ==
  CASE op = "from" -> "ingress"
    [] op = "through" -> "transform or duplex"
    [] op = "to" -> "egress"
    [] OTHER -> ""

\* C24: from, through and to check the node's kind at the call: a node of a
\* wrong kind makes the call throw "Expected <kind> node, got <actual>" and
\* leaves the builder's nodes as they were; a node of the right kind is
\* appended without a throw.
C24_KindCheckedAtCall ==
  /\ [](BuilderOpen /\ pipelineBuilder.last.op \in {"from", "through", "to"} =>
          LET call == pipelineBuilder.last
          IN call.thrown =
               IF call.node.kind \in ExpectedKinds(call.op) THEN NoThrow
               ELSE <<"Expected ", ExpectedWording(call.op), " node, got ",
                      call.node.kind>>)
  /\ [][(BuilderOpen /\ BuilderOpen') =>
          /\ pipelineBuilder'.last.thrown # NoThrow =>
               pipelineBuilder'.nodes = pipelineBuilder.nodes
          /\ pipelineBuilder'.nodes # pipelineBuilder.nodes =>
               /\ pipelineBuilder'.last.thrown = NoThrow
               /\ pipelineBuilder'.last.node.kind
                    \in ExpectedKinds(pipelineBuilder'.last.op)
               /\ pipelineBuilder'.nodes
                    = Append(pipelineBuilder.nodes, pipelineBuilder'.last.node)]_vars

\* from(mockIngress) accepted, then to(mockTransform) thrown: one node still
C24_Witness ==
  /\ BuilderOpen
  /\ pipelineBuilder.last.op = "to"
  /\ pipelineBuilder.last.node.kind = "transform"
  /\ pipelineBuilder.last.thrown = <<"Expected ", "egress", " node, got ", "transform">>
  /\ Len(pipelineBuilder.nodes) = 1
  /\ pipelineBuilder.nodes[1].kind = "ingress"

NodesOfKind(nodes, kind) == {i \in DOMAIN nodes : nodes[i].kind = kind}

\* C25 as stated: whatever calls were made, a Pipe that build() returns has
\* exactly one ingress node, in first position, exactly one egress node, in
\* last position, and only transform or duplex nodes in between.
C25_OnlyValidSequencesBuilt ==
  BuilderOpen =>
    \A i \in DOMAIN pipelineBuilder.pipes :
      LET nodes == pipelineBuilder.pipes[i].returned
      IN /\ ValidSequence(nodes)
         /\ NodesOfKind(nodes, "ingress") = {1}
         /\ NodesOfKind(nodes, "egress") = {Len(nodes)}

\* C26 as stated: once build() has returned a Pipe, no later call on the
\* builder changes the Pipe's nodes or its name.
C26_PipeImmutable ==
  BuilderOpen =>
    \A i \in DOMAIN pipelineBuilder.pipes :
      /\ BuiltPipe(i).nodes = pipelineBuilder.pipes[i].returned
      /\ BuiltPipe(i).name = pipelineBuilder.name

\* ------------------------------------------------------------- ClusterBuilder
MaxConfigs == 2

Blank == " "

\* String.prototype.trim: the name without its leading and trailing blanks
RECURSIVE TrimStart(_)
TrimStart(name) ==
  IF name # <<>> /\ Head(name) = Blank THEN TrimStart(Tail(name)) ELSE name

RECURSIVE TrimEnd(_)
TrimEnd(name) ==
  IF name # <<>> /\ name[Len(name)] = Blank
    THEN TrimEnd(SubSeq(name, 1, Len(name) - 1))
    ELSE name

Trim(name) == TrimEnd(TrimStart(name))

\* !name || name.trim() === ""
NameRejected(name) == name = <<>> \/ Trim(name) = <<>>

\* the Deployment objects handed to the builder, all over the same Pipe
MockPipe == Pipe("mock-pipe", <<[kind |-> "ingress", name |-> <<"mock-node">>]>>)
BuilderDeployments ==
  {Deployment("mock-deployment", MockPipe), Deployment("another", MockPipe)}

\* configuration objects: maps from some of the keys to values
EmptyObject == <<>>
ConfigObjects ==
  {EmptyObject, [env |-> "dev"], [env |-> "prod", region |-> "eu"]}

\* { ...earlier, ...later }: a new object, the later keys override
Spread(earlier, later) ==
  [k \in DOMAIN earlier \cup DOMAIN later |->
     IF k \in DOMAIN later THEN later[k] ELSE earlier[k]]

\* this.config is undefined
Undef == 0
\* the array made by the constructor for this.deployments
OwnArray == 1

\* new ClusterBuilder(name): arrays and objects are the arrays and the
\* configuration objects made so far; the fields hold references to them
NewClusterBuilder(name) ==
  [state |-> "open", name |-> name,
   arrays |-> <<<<>>>>, deployments |-> OwnArray,
   objects |-> <<>>, config |-> Undef,
   added |-> <<>>, given |-> <<>>,
   clusters |-> <<>>]

\* cluster(name): throws for an empty or blank name, else a new builder
ClusterNew(name) ==
  /\ clusterBuilder = NoBuilder
  /\ clusterBuilder' =
       IF NameRejected(name)
         THEN [state |-> "rejected", name |-> name,
               thrown |-> <<"Cluster name must be a non-empty string">>]
         ELSE NewClusterBuilder(name)
  /\ UNCHANGED <<semanticBuilder, batchNode, pipelineBuilder, plugins, loops, takeLog, handled, cluster,
                 eventQueue, exec, orch, fiberExit, emitted, invoked>>

ClusterBuilderOpen == clusterBuilder # NoBuilder /\ clusterBuilder.state = "open"

\* addDeployment: this.deployments.push(deployment)
AddDeployment(deployment) ==
  /\ ClusterBuilderOpen
  /\ Len(clusterBuilder.added) < MaxDeployments
  /\ clusterBuilder' =
       [clusterBuilder EXCEPT
          !.arrays[clusterBuilder.deployments] = Push(@, deployment),
          !.added = Append(@, deployment)]
  /\ UNCHANGED <<semanticBuilder, batchNode, pipelineBuilder, plugins, loops, takeLog, handled, cluster,
                 eventQueue, exec, orch, fiberExit, emitted, invoked>>

\* a withConfig that writes the keys into the object this.config refers to
WithConfigInPlace(config) ==
  /\ ClusterBuilderOpen
  /\ Len(clusterBuilder.given) < MaxConfigs
  /\ clusterBuilder' =
       IF clusterBuilder.config = Undef
         THEN [clusterBuilder EXCEPT
                 !.objects = Append(@, config),
                 !.config = Len(clusterBuilder.objects) + 1,
                 !.given = Append(@, config)]
         ELSE [clusterBuilder EXCEPT
                 !.objects[clusterBuilder.config] = Spread(@, config),
                 !.given = Append(@, config)]
  /\ UNCHANGED <<semanticBuilder, batchNode, pipelineBuilder, plugins, loops, takeLog, handled, cluster,
                 eventQueue, exec, orch, fiberExit, emitted, invoked>>

\* withConfig: this.config = { ...(this.config ?? {}), ...config }, a new
\* object each time
WithConfig(config) ==
  /\ ClusterBuilderOpen
  /\ Len(clusterBuilder.given) < MaxConfigs
  /\ LET earlier == IF clusterBuilder.config = Undef THEN EmptyObject
                    ELSE clusterBuilder.objects[clusterBuilder.config]
     IN clusterBuilder' =
          [clusterBuilder EXCEPT
             !.objects = Append(@, Spread(earlier, config)),
             !.config = Len(clusterBuilder.objects) + 1,
             !.given = Append(@, config)]
  /\ UNCHANGED <<semanticBuilder, batchNode, pipelineBuilder, plugins, loops, takeLog, handled, cluster,
                 eventQueue, exec, orch, fiberExit, emitted, invoked>>

\* [...this.deployments]: a new array with the same elements
CopyOf(array) == array

\* build(): { name, deployments: [...this.deployments], config? }; the
\* Cluster holds references to the copy and to the object in this.config
\* (no config key when this.config is undefined); calls counts the
\* addDeployment and withConfig calls made before this build
ClusterBuild ==
  /\ ClusterBuilderOpen
  /\ Len(clusterBuilder.clusters) < MaxBuilds
  /\ clusterBuilder' =
       [clusterBuilder EXCEPT
          !.arrays = Append(@, CopyOf(@[clusterBuilder.deployments])),
          !.clusters = Append(@,
             [name |-> clusterBuilder.name,
              deployments |-> Len(clusterBuilder.arrays) + 1,
              config |-> clusterBuilder.config,
              calls |-> [added |-> Len(clusterBuilder.added),
                         given |-> Len(clusterBuilder.given)]])]
  /\ UNCHANGED <<semanticBuilder, batchNode, pipelineBuilder, plugins, loops, takeLog, handled, cluster,
                 eventQueue, exec, orch, fiberExit, emitted, invoked>>

\* the Cluster returned by the i-th build, as it is now
BuiltCluster(i) ==
  LET c == clusterBuilder.clusters[i]
      built == Cluster(c.name, clusterBuilder.arrays[c.deployments])
  IN IF c.config = Undef
       THEN built
       ELSE [name |-> built.name, deployments |-> built.deployments,
             config |-> clusterBuilder.objects[c.config]]

NextClusterBuilder ==
  \/ \E name \in NamesUpTo(MaxNameLen) : ClusterNew(name)
  \/ \E deployment \in BuilderDeployments : AddDeployment(deployment)
  \/ \E config \in ConfigObjects : WithConfig(config)
  \/ ClusterBuild

SpecClusterBuilder == InitPipelineBuilder /\ [][NextClusterBuilder]_vars

\* --------------------------------------------------- claims on ClusterBuilder
\* the keys of the given objects, each with the value of the last object
\* that has it
LastWith(k, configs) ==
  CHOOSE j \in DOMAIN configs :
    /\ k \in DOMAIN configs[j]
    /\ \A i \in DOMAIN configs : k \in DOMAIN configs[i] => i <= j

MergeOf(configs) ==
  [k \in UNION {DOMAIN configs[j] : j \in DOMAIN configs} |->
     configs[LastWith(k, configs)][k]]

\* C27: a Cluster returned by build() has the builder's name, the
\* deployments of the addDeployment calls made before that build in call
\* order, and as config the merge of the withConfig calls made before it with
\* later keys overriding (no config when there was none); this stays so
\* whatever is called on the builder afterwards.
C27_ClusterAsBuilt ==
  ClusterBuilderOpen =>
    \A i \in DOMAIN clusterBuilder.clusters :
      LET calls == clusterBuilder.clusters[i].calls
          built == BuiltCluster(i)
      IN /\ built.name = clusterBuilder.name
         /\ built.deployments = SubSeq(clusterBuilder.added, 1, calls.added)
         /\ IF calls.given = 0
              THEN "config" \notin DOMAIN built
              ELSE /\ "config" \in DOMAIN built
                   /\ built.config =
                        MergeOf(SubSeq(clusterBuilder.given, 1, calls.given))

\* two builds with an addDeployment and an overriding withConfig in between
C27_Witness ==
  /\ ClusterBuilderOpen
  /\ Len(clusterBuilder.clusters) = 2
  /\ clusterBuilder.clusters[1].calls = [added |-> 1, given |-> 1]
  /\ clusterBuilder.clusters[2].calls = [added |-> 2, given |-> 2]
  /\ clusterBuilder.added[1] # clusterBuilder.added[2]
  /\ clusterBuilder.given[1] = [env |-> "prod", region |-> "eu"]
  /\ clusterBuilder.given[2] = [env |-> "dev"]
  /\ BuiltCluster(1).config = [env |-> "prod", region |-> "eu"]
  /\ BuiltCluster(2).config = [env |-> "dev", region |-> "eu"]

\* ------------------------------------------------ the two entry points
\* cluster(name) and pipeline(name), and what follows on the PipelineBuilder
NextEntryPoints ==
  \/ \E name \in NamesUpTo(MaxNameLen) : ClusterNew(name)
  \/ NextPipelineBuilder

SpecEntryPoints == InitPipelineBuilder /\ [][NextEntryPoints]_vars

\* a name with a character that is not a blank
HasVisibleCharacter(name) == \E i \in DOMAIN name : name[i] # Blank

\* C28: cluster(name) with an empty or whitespace-only name throws and no
\* ClusterBuilder exists, and no Pipe with an empty or whitespace-only name
\* is ever returned by a PipelineBuilder.
C28_BlankNamesRejected ==
  /\ clusterBuilder # NoBuilder =>
       IF HasVisibleCharacter(clusterBuilder.name)
         THEN clusterBuilder.state = "open"
         ELSE /\ clusterBuilder.state = "rejected"
              /\ clusterBuilder.thrown =
                   <<"Cluster name must be a non-empty string">>
  /\ BuilderOpen =>
       \A i \in DOMAIN pipelineBuilder.pipes :
         HasVisibleCharacter(pipelineBuilder.pipes[i].name)

\* ------------------------------------------- two runs over the same Pipe
\* executor.run() is called twice on one PipelineExecutor (or on two
\* executors over the same Pipe and queue); each call is a run of its own,
\* and the two runs are scheduled in any order, one after the other included.
MaxRunNodes == 2

\* the first and the second call of run()
Runs == {1, 2}

RunNodes(i) ==
  {MakeNode(i, "const", NoError), MakeNode(i, "identity", NoError),
   MakeNode(i, "fail", StringError("Test error"))}

RECURSIVE RunNodeLists(_)
RunNodeLists(n) ==
  IF n = 0 THEN {<<>>}
  ELSE LET shorter == RunNodeLists(n - 1)
       IN shorter \cup {Append(s, nd) : s \in {t \in shorter : Len(t) = n - 1},
                                        nd \in RunNodes(n)}

InitTwoRuns ==
  /\ cluster = Cluster(ClusterName, <<>>)
  /\ eventQueue = <<>>
  /\ \E nodes \in RunNodeLists(MaxRunNodes) :
       exec = [f \in Runs |-> NewExecutor(Pipe("test-pipeline", nodes))]
  /\ orch = NoOrchestrator
  /\ fiberExit = [f \in Runs |-> "running"]
  /\ emitted = [f \in Runs |-> <<>>]
  /\ invoked = [f \in Runs |-> <<>>]
  /\ NoPlugins
  /\ NoBuilders

NextTwoRuns ==
  \E f \in Runs :
    \/ ExecStart(f)
    \/ ExecNodeStarted(f)
    \/ ExecInvoke(f)
    \/ ExecNodeSettles(f)
    \/ ExecNodeErrored(f)
    \/ ExecNodeCompleted(f)
    \/ ExecPipelineCompleted(f)

SpecTwoRuns == InitTwoRuns /\ [][NextTwoRuns]_vars

\* what one run of the pipe publishes when it runs alone
TraceAlone(pipe) ==
  IF AllSucceed(pipe) THEN SuccessTrace(pipe)
  ELSE FailureTrace(pipe, FirstFailing(pipe))

\* C29: of two runs over the same Pipe, in whatever order they are
\* scheduled, each starts with the current value undefined, hands every node
\* the value its own previous node returned, and has published, when it is
\* done, the complete event sequence of a run that is alone, all of it on the
\* queue in its own order.
C29_RunsShareNothing ==
  \A f \in Runs :
    /\ exec[f].pc = "start" => exec[f].currentInput = Undefined
    /\ \A c \in 1..Len(invoked[f]) :
         /\ invoked[f][c].idx = c
         /\ invoked[f][c].input =
              IF c = 1 THEN Undefined ELSE invoked[f][c - 1].value
    /\ IsPrefix(emitted[f], TraceAlone(exec[f].pipe))
    /\ exec[f].pc = "done" =>
         /\ emitted[f] = TraceAlone(exec[f].pipe)
         /\ EventsBy(f, eventQueue) = TraceAlone(exec[f].pipe)

\* both runs are done, their events interleave on the queue, and the second
\* node received the value of the first
C29_Witness ==
  /\ \A f \in Runs : exec[f].pc = "done" /\ Len(invoked[f]) = 2
  /\ \A f \in Runs : invoked[f][2].input = "out1" /\ invoked[f][2].value = "out2"
  /\ eventQueue[1].by = 2
  /\ eventQueue[2].by = 1
  /\ eventQueue[3].by = 1
  /\ eventQueue[4].by = 2

\* ------------------------------------- failure ordering under the Orchestrator
\* positions of the NodeErrored events of deployment d
NodeErroredPositions(d) ==
  {p \in PositionsBy(d) : eventQueue[p].ev._tag = "NodeErrored"}

\* C30: for a failing deployment d, NodeErrored of its failing node is on the
\* queue before DeploymentErrored(d), no NodeStarted of d follows that
\* NodeErrored, and DeploymentErrored(d) is the last event that originates
\* from d.
C30_FailureOrdering ==
  \A d \in DeploymentIds :
    /\ \A q \in NodeErroredPositions(d) :
         LET pipe == Deployments[d].pipe
             node == pipe.nodes[FirstFailing(pipe)]
         IN /\ ~Healthy(d)
            /\ eventQueue[q].ev = NodeErrored(node.name, node.err)
            /\ \A r \in PositionsBy(d) :
                 r > q => eventQueue[r].ev._tag = "DeploymentErrored"
    /\ \A p \in TerminalPositions(d, "DeploymentErrored") :
         /\ \E q \in NodeErroredPositions(d) : q < p
         /\ \A r \in PositionsBy(d) : r <= p

\* a deployment fails at its second node while its sibling goes on publishing
C30_Witness ==
  /\ Len(Deployments) = 2
  /\ orch.pc = "done"
  /\ FirstFailing(Deployments[1].pipe) = 2
  /\ \E p \in TerminalPositions(1, "DeploymentErrored") :
       /\ \E q \in NodeErroredPositions(1) :
            /\ q < p
            /\ \E r \in PositionsBy(2) : q < r /\ r < p
       /\ \E r \in PositionsBy(2) : r > p

\* ------------------------------------------- registration while the loop runs
\* the fiber of loop l is suspended (in its take or inside a handler that has
\* a point of suspension) or gone, so that another fiber can run
LoopSuspended(l) ==
  \/ loops[l].status = "interrupted"
  \/ loops[l].pc = "take" /\ loops[l].active = 0
  \/ loops[l].active > 0 /\ ~InSingleStep(l)

\* the plugins in the order in which the caller registers them: one whose
\* handler has a point of suspension first
RegistrationOrder == <<"metrics", "counter", LoggingPlugin, "tracing">>

\* a register that puts the plugin in front of the others
RegisterFirst(plugin) ==
  /\ plugin = RegistrationOrder[Len(plugins) + 1]
  /\ Len(plugins) < MaxPlugins
  /\ (Len(plugins) + 1) * Len(loops) <= MaxHandlers
  /\ \A l \in DOMAIN loops : LoopSuspended(l)
  /\ plugins' = <<plugin>> \o plugins
  /\ UNCHANGED <<semanticBuilder, batchNode, pipelineBuilder, clusterBuilder, loops, takeLog, handled, cluster,
                 eventQueue, exec, orch, fiberExit, emitted, invoked>>

\* register(plugin): this.plugins.push(plugin), by a fiber other than the
\* loops'; Effect.forEach in the loop reads the same array
Register(plugin) ==
  /\ plugin = RegistrationOrder[Len(plugins) + 1]
  /\ Len(plugins) < MaxPlugins
  /\ (Len(plugins) + 1) * Len(loops) <= MaxHandlers
  /\ \A l \in DOMAIN loops : LoopSuspended(l)
  /\ plugins' = Append(plugins, plugin)
  /\ UNCHANGED <<semanticBuilder, batchNode, pipelineBuilder, clusterBuilder, loops, takeLog, handled, cluster,
                 eventQueue, exec, orch, fiberExit, emitted, invoked>>

\* a manager on an empty bus whose run() was called before any register
InitRegister ==
  /\ plugins = <<>>
  /\ \E m \in 1..MaxLoops : loops = [l \in 1..m |-> NewLoop]
  /\ takeLog = <<>>
  /\ handled = <<>>
  /\ NoBuilders
  /\ cluster = Cluster(ClusterName, <<>>)
  /\ eventQueue = <<>>
  /\ exec = <<>>
  /\ fiberExit = <<>>
  /\ orch = NoOrchestrator
  /\ emitted = [f \in {CallerFiber} |-> <<>>]
  /\ invoked = <<>>

NextRegister ==
  \/ NextBus
  \/ \E plugin \in Range(RegistrationOrder) : Register(plugin)

SpecRegister == InitRegister /\ [][NextRegister]_vars

\* the take that returned the entry of handler invocation h
TakeOf(h) == CHOOSE t \in Range(takeLog) : t.entry = h.entry

\* the positions in the registry of the plugins invoked with this entry
HandlersOf(entry) == {handled[i].at : i \in {j \in DOMAIN handled : handled[j].entry = entry}}

\* the loop that took t has left the forEach over the plugins for it
DispatchOver(t) ==
  \/ loops[t.loop].event # t.entry
  \/ loops[t.loop].pc = "take" /\ loops[t.loop].active = 0

\* plugins are invoked at the position they were registered at, for an
\* event only after the plugins before them, and for every event that was
\* taken once they were registered and whose dispatch is over
RegistrationOrderKept ==
  /\ \A i \in DOMAIN handled :
       /\ handled[i].at <= Len(plugins)
       /\ plugins[handled[i].at] = handled[i].plugin
       /\ \A k \in 1..(handled[i].at - 1) :
            \E j \in 1..(i - 1) :
              handled[j].entry = handled[i].entry /\ handled[j].at = k
  /\ \A i \in DOMAIN takeLog :
       /\ takeLog[i].registered <= Len(plugins)
       /\ DispatchOver(takeLog[i]) =>
            1..takeLog[i].registered \subseteq HandlersOf(takeLog[i].entry)

\* C31 (as stated): the registry only grows and keeps its order, a plugin is
\* invoked after the plugins registered before it for every event taken after
\* its registration, and for no event that was taken before it was
\* registered.
C31_NoEventTakenBeforeRegistration ==
  /\ RegistrationOrderKept
  /\ \A i \in DOMAIN handled : handled[i].at <= TakeOf(handled[i]).registered

\* C31 (amended): the registry only grows and keeps its order, a plugin is
\* invoked after the plugins registered before it for every event taken after
\* its registration, and for no event whose dispatch was over when it was
\* registered; an event whose dispatch is still going on when the plugin is
\* registered is passed to it as well.
C31_NoEventDispatchedBeforeRegistration ==
  /\ []RegistrationOrderKept
  /\ [][/\ IsPrefix(plugins, plugins')
        /\ \A i \in DOMAIN takeLog :
             DispatchOver(takeLog[i]) =>
               HandlersOf(takeLog[i].entry)' = HandlersOf(takeLog[i].entry)]_vars

\* a plugin registered while the first plugin was handling an event has
\* handled that event too, and the next one
C31_Witness ==
  /\ Len(plugins) = 2
  /\ Len(takeLog) = 2
  /\ takeLog[1].registered = 1
  /\ takeLog[2].registered = 2
  /\ HandlersOf(takeLog[1].entry) = {1, 2}
  /\ HandlersOf(takeLog[2].entry) = {1, 2}
  /\ \A i \in DOMAIN takeLog : DispatchOver(takeLog[i])

\* ------------------------------------- producers on the queue of the bus
\* the Queue object made by EventBus.make and kept in the bus
BusQueue == "this.queue"
\* a queue that is not the one of the bus
OtherQueue == "Queue.unbounded()"

\* a getQueue that hands out a queue of its own
GetQueueOther == OtherQueue

\* getQueue(): return this.queue
GetQueue == BusQueue

\* Queue.offer(queue, entry) as the readers of the bus see it: what is
\* offered on another queue never shows in the queue of the bus
OfferOn(queue, entry) ==
  IF queue = BusQueue THEN Offer(eventQueue, entry) ELSE eventQueue

\* the fiber that was given bus.getQueue(), as PipelineExecutor and
\* Orchestrator are, and the events it offers on it, in turn
QueueFiber == 1
QueueEventsOffered == <<PipelineStarted("p"), NodeStarted("n1")>>

\* Queue.offer(bus.getQueue(), event) by the queue-based producer
QueueOffer ==
  /\ Len(emitted[QueueFiber]) < MaxPublished
  /\ LET e == QueueEventsOffered[(Len(emitted[QueueFiber]) % Len(QueueEventsOffered)) + 1]
     IN /\ eventQueue' =
             OfferOn(GetQueue, [ev |-> e, by |-> QueueFiber,
                                n |-> Len(emitted[QueueFiber]) + 1])
        /\ emitted' = [emitted EXCEPT ![QueueFiber] = Append(@, e)]
  /\ UNCHANGED <<semanticBuilder, batchNode, pipelineBuilder, clusterBuilder, plugins, loops, takeLog, handled,
                 cluster, exec, orch, fiberExit, invoked>>

\* the bus and the manager of the command line (LoggingPlugin registered,
\* run() called), a caller that publishes on the bus and a producer that
\* offers on getQueue()
InitInterop ==
  /\ CliManager
  /\ NoBuilders
  /\ cluster = Cluster(ClusterName, <<>>)
  /\ eventQueue = <<>>
  /\ exec = <<>>
  /\ fiberExit = <<>>
  /\ orch = NoOrchestrator
  /\ emitted = [f \in {CallerFiber, QueueFiber} |-> <<>>]
  /\ invoked = <<>>

NextInterop ==
  \/ NextBus
  \/ QueueOffer

SpecInterop == InitInterop /\ [][NextInterop]_vars

\* the entry of the latest offer of fiber f
LatestOffer(f, log) ==
  [ev |-> log[f][Len(log[f])], by |-> f, n |-> Len(log[f])]

\* C32: an event offered on getQueue() and an event passed to publish()
\* enter the same FIFO: each offer, by either way, puts the event at the tail
\* of the queue take() reads, each take returns its head, and so the events
\* taken followed by the events queued are the events of each producer in the
\* order it offered them.
C32_OneQueue ==
  /\ [](\A f \in DOMAIN emitted :
          EventsBy(f, [i \in DOMAIN takeLog |-> takeLog[i].entry] \o eventQueue)
            = emitted[f])
  /\ [][/\ \A f \in DOMAIN emitted :
             emitted[f]' # emitted[f] =>
               eventQueue' = Append(eventQueue, LatestOffer(f, emitted'))
        /\ takeLog' # takeLog =>
             /\ takeLog'[Len(takeLog')].entry = Head(eventQueue)
             /\ eventQueue' = Tail(eventQueue)]_vars

\* the loop has taken, in the order of the offers, an event published on the
\* bus between two events offered on getQueue()
C32_Witness ==
  /\ Len(takeLog) = 3
  /\ takeLog[1].entry = [ev |-> PipelineStarted("p"), by |-> QueueFiber, n |-> 1]
  /\ takeLog[2].entry = [ev |-> NodeStarted("x"), by |-> CallerFiber, n |-> 1]
  /\ takeLog[3].entry = [ev |-> NodeStarted("n1"), by |-> QueueFiber, n |-> 2]
  /\ Len(handled) >= 3

\* ----------------------------------- the run of the command line, to its end
\* yield* orchestrator.run(); yield* Fiber.interrupt(pluginFiber): the
\* interruption is requested as soon as run() has returned
CliInterrupt ==
  /\ orch.pc = "done"
  /\ Interrupt(1)

InitCliRun ==
  /\ InitCli
  /\ CliManager

NextCliRun ==
  \/ NextOrch
  \/ LoopTake(1)
  \/ HandlerStart(1)
  \/ HandlerEnd(1)
  \/ CliInterrupt

SpecCliRun == InitCliRun /\ [][NextCliRun]_vars

\* C33: when the interruption of the plugin fiber takes effect, every event
\* published during the run, ClusterCompleted included, has been handed to
\* LoggingPlugin.
C33_AllLoggedBeforeInterrupt ==
  loops[1].status = "interrupted" =>
    /\ eventQueue = <<>>
    /\ \A f \in DOMAIN emitted : \A n \in 1..Len(emitted[f]) :
         \E i \in DOMAIN handled :
           /\ handled[i].plugin = LoggingPlugin
           /\ handled[i].entry = [ev |-> emitted[f][n], by |-> f, n |-> n]

\* --------------------------------------------- at most one handling per event
\* the invocations of the plugin at position k with this entry
Handlings(k, entry) ==
  {i \in DOMAIN handled : handled[i].at = k /\ handled[i].entry = entry}

Stalled(d) ==
  /\ d \in DOMAIN exec
  /\ exec[d].pc = "running"
  /\ ~Settles(exec[d].pipe.nodes[exec[d].idx])

\* C35: while a deployment is stalled on a node that never settles, which it
\* then is for ever, Orchestrator.run has not returned, ClusterCompleted is
\* not on the queue and the stalled deployment has no terminal event, whatever
\* the other deployments have published.
C35_StalledNeverCompletes ==
  /\ [](\A d \in DeploymentIds :
          Stalled(d) =>
            /\ orch.pc # "done"
            /\ orch.outcome = Pending
            /\ TagPositions("ClusterCompleted") = {}
            /\ ~HasTerminalEvent(d)
            /\ fiberExit[d] = "running")
  /\ [][\A d \in DeploymentIds : Stalled(d) => Stalled(d)']_vars

\* the second deployment is stalled, the first has published its terminal
\* event and the join loop waits for the second
C35_Witness ==
  /\ Len(Deployments) = 2
  /\ Stalled(2)
  /\ HasTerminalEvent(1)
  /\ orch.pc = "join" /\ orch.j = 2

\* ------------------------------------------------- Pipes no builder made
\* C36: the executor runs whatever Pipe it is given: for an empty node list
\* it publishes PipelineStarted and PipelineCompleted only, invokes no node
\* and succeeds; for a Pipe of one node, which no builder returns, it invokes
\* that node and publishes the events of a run of it; the nodes are always
\* invoked in list order.
C36_PipeNotValidated ==
  /\ \A c \in 1..Len(invoked[StandaloneFiber]) :
       invoked[StandaloneFiber][c].idx = c
  /\ Len(ThePipe.nodes) = 0 =>
       /\ invoked[StandaloneFiber] = <<>>
       /\ TheRun.outcome.status # "failure"
       /\ TheRun.pc = "done" =>
            /\ TheRun.outcome = Success
            /\ QueueEvents = <<PipelineStarted(ThePipe.name),
                               PipelineCompleted(ThePipe.name)>>
  /\ (Len(ThePipe.nodes) = 1 /\ TheRun.pc = "done") =>
       /\ Len(invoked[StandaloneFiber]) = 1
       /\ invoked[StandaloneFiber][1].input = Undefined
       /\ QueueEvents =
            <<PipelineStarted(ThePipe.name), NodeStarted(ThePipe.nodes[1].name),
              IF Fails(ThePipe.nodes[1])
                THEN NodeErrored(ThePipe.nodes[1].name, ThePipe.nodes[1].err)
                ELSE NodeCompleted(ThePipe.nodes[1].name)>>
              \o (IF Fails(ThePipe.nodes[1]) THEN <<>>
                  ELSE <<PipelineCompleted(ThePipe.name)>>)

\* the run of a Pipe without nodes is over
C36_Witness ==
  /\ ThePipe.nodes = <<>>
  /\ TheRun.pc = "done"
  /\ TheRun.outcome = Success
  /\ Len(eventQueue) = 2

\* ------------------------------------------- semantic pipeline builder
MaxServices == 2
MaxSemanticNodes == 2

\* the services of the tests and the lists of services a node may require
ServiceNames == {"Database", "Logger"}
RequiredLists == {<<>>, <<"Database">>, <<"Database", "Logger">>}
SemanticKinds == {"ingress", "transform", "egress"}
SemanticNodes ==
  [kind : SemanticKinds, requiredServices : RequiredLists]

\* array.join(", ")
RECURSIVE Join(_)
Join(names) ==
  IF names = <<>> THEN <<>>
  ELSE IF Len(names) = 1 THEN names
  ELSE <<Head(names), ", ">> \o Join(Tail(names))

\* Array.from(new Set(names)): the first occurrence of each name, in order
RECURSIVE Distinct(_)
Distinct(names) ==
  IF names = <<>> THEN <<>>
  ELSE LET front == Distinct(SubSeq(names, 1, Len(names) - 1))
           last == names[Len(names)]
       IN IF \E i \in DOMAIN front : front[i] = last THEN front
          ELSE Append(front, last)

\* a filter that finds nothing missing
MissingServicesNone(required, available) == <<>>

\* requiredServices.filter(name => !availableNames.has(name))
MissingServices(required, available) ==
  SelectSeq(required, LAMBDA name : \A i \in DOMAIN available : available[i] # name)

\* validateNodeServices / validateServices: what the call throws, if anything
ValidateServices(required, available) ==
  LET missing == MissingServices(required, available)
  IN IF Len(required) > 0 /\ Len(missing) > 0
       THEN <<"Missing required services: ">> \o Join(missing)
              \o <<". ", "Available services: ">> \o Join(Distinct(available))
       ELSE NoThrow

NewSemanticBuilder(name) ==
  [state |-> "open", name |-> name, nodes |-> <<>>, services |-> <<>>,
   last |-> [op |-> "new", node |-> NoNode, thrown |-> NoThrow, before |-> 0]]

SemanticBuilderOpen == semanticBuilder # NoBuilder

\* pipeline(name) of the semantic API
SemanticNew(name) ==
  /\ semanticBuilder = NoBuilder
  /\ semanticBuilder' = NewSemanticBuilder(name)
  /\ UNCHANGED <<batchNode, pipelineBuilder, clusterBuilder, plugins, loops, takeLog,
                 handled, cluster, eventQueue, exec, orch, fiberExit, emitted, invoked>>

\* with(service): this.services.push(service)
With(service) ==
  /\ SemanticBuilderOpen
  /\ Len(semanticBuilder.services) < MaxServices
  /\ semanticBuilder' =
       [semanticBuilder EXCEPT
          !.services = Append(@, service),
          !.last = [op |-> "with", node |-> NoNode, thrown |-> NoThrow,
                    before |-> Len(semanticBuilder.nodes)]]
  /\ UNCHANGED <<batchNode, pipelineBuilder, clusterBuilder, plugins, loops, takeLog,
                 handled, cluster, eventQueue, exec, orch, fiberExit, emitted, invoked>>

\* start, then, end: the kind is checked, then the services, then the node
\* is pushed
AddSemantic(op, kind, node) ==
  /\ SemanticBuilderOpen
  /\ Len(semanticBuilder.nodes) < MaxSemanticNodes
  /\ LET thrown ==
           IF node.kind # kind
             THEN <<"Expected ", kind, " node for ", op, "(), got ", node.kind>>
             ELSE ValidateServices(node.requiredServices, semanticBuilder.services)
     IN semanticBuilder' =
          [semanticBuilder EXCEPT
             !.nodes = IF thrown = NoThrow THEN Append(@, node) ELSE @,
             !.last = [op |-> op, node |-> node, thrown |-> thrown,
                       before |-> Len(semanticBuilder.nodes)]]
  /\ UNCHANGED <<batchNode, pipelineBuilder, clusterBuilder, plugins, loops, takeLog,
                 handled, cluster, eventQueue, exec, orch, fiberExit, emitted, invoked>>

Start(node) == AddSemantic("start", "ingress", node)
Then(node) == AddSemantic("then", "transform", node)
End(node) == AddSemantic("end", "egress", node)

NextSemanticBuilder ==
  \/ SemanticNew(<<"t">>)
  \/ \E service \in ServiceNames : With(service)
  \/ \E node \in SemanticNodes :
       \/ Start(node)
       \/ Then(node)
       \/ End(node)

SpecSemanticBuilder == InitPipelineBuilder /\ [][NextSemanticBuilder]_vars

\* the names in a list
Names(list) == {list[i] : i \in DOMAIN list}

\* C37: a node that requires services is appended by start, then or end
\* only when every one of them was registered by an earlier with(); a call
\* with a node of the right kind that lacks one throws "Missing required
\* services: " and the missing names and appends nothing, and a later with()
\* appends nothing either.
C37_ServicesRequiredAtCall ==
  /\ [](SemanticBuilderOpen =>
          LET b == semanticBuilder
              node == b.last.node
              lacking == {n \in Names(node.requiredServices) : n \notin Names(b.services)}
          IN /\ \A i \in DOMAIN b.nodes :
                  Names(b.nodes[i].requiredServices) \subseteq Names(b.services)
             /\ (b.last.op \in {"start", "then", "end"} /\ b.last.thrown = NoThrow) =>
                  /\ lacking = {}
                  /\ Len(b.nodes) = b.last.before + 1
                  /\ b.nodes[Len(b.nodes)] = node
             /\ (b.last.op \in {"start", "then", "end"} /\ lacking # {}) =>
                  /\ b.last.thrown # NoThrow
                  /\ Len(b.nodes) = b.last.before
                  /\ b.last.thrown[1] \in {"Expected ", "Missing required services: "}
                  /\ b.last.thrown[1] = "Missing required services: " =>
                       /\ Names(SubSeq(b.last.thrown, 2, 2 * Cardinality(lacking)))
                            \ {", "} = lacking
                       /\ b.last.thrown[2 * Cardinality(lacking) + 1] = ". "
             /\ (b.last.op = "start" /\ node.kind = "ingress" /\ lacking # {}) =>
                  b.last.thrown[1] = "Missing required services: "
             /\ (b.last.op = "then" /\ node.kind = "transform" /\ lacking # {}) =>
                  b.last.thrown[1] = "Missing required services: "
             /\ (b.last.op = "end" /\ node.kind = "egress" /\ lacking # {}) =>
                  b.last.thrown[1] = "Missing required services: ")
  /\ [][(SemanticBuilderOpen /\ semanticBuilder'.last.op = "with") =>
          semanticBuilder'.nodes = semanticBuilder.nodes]_vars

\* then() was rejected for a node that requires Database and Logger with only
\* Database registered: the node list is the one before the call
C37_Witness ==
  /\ SemanticBuilderOpen
  /\ semanticBuilder.services = <<"Database">>
  /\ semanticBuilder.last.op = "then"
  /\ semanticBuilder.last.node =
       [kind |-> "transform", requiredServices |-> <<"Database", "Logger">>]
  /\ semanticBuilder.last.thrown =
       <<"Missing required services: ", "Logger", ". ",
         "Available services: ", "Database">>
  /\ Len(semanticBuilder.nodes) = 1

\* ------------------------------------------------------------ batch node
MaxBatchSize == 3
MaxBatchCalls == 5

\* the node of src/unnamed/part_020 (run is an Effect, config.timeout is not
\* read) and the one of src/src/nodes/transform/batch.ts (run is async and
\* starts a timer for a partial batch when config.timeout is given)
BatchVariants == {"effect", "async"}

\* batch(name, config): an empty buffer and no timer; timer is "none"
\* (timeoutId is null), "pending" (set, not yet fired) or "fired" (timeoutId
\* still holds the id of a timer that has fired)
NewBatchNode(variant, size, timeout) ==
  [state |-> "open", variant |-> variant, size |-> size, timeout |-> timeout,
   batchBuffer |-> <<>>, timer |-> "none", calls |-> <<>>]

BatchNew(variant, size, timeout) ==
  /\ batchNode = NoBuilder
  /\ batchNode' = NewBatchNode(variant, size, timeout)
  /\ UNCHANGED <<semanticBuilder, pipelineBuilder, clusterBuilder, plugins, loops,
                 takeLog, handled, cluster, eventQueue, exec, orch, fiberExit,
                 emitted, invoked>>

\* a test that lets the buffer grow one past the size
BatchFullAbove(buffer, size) == Len(buffer) > size

\* batchBuffer.length >= config.size
BatchFull(buffer, size) == Len(buffer) >= size

\* run(input): push; a full buffer is returned and replaced by an empty one
\* (a timer is cleared); otherwise a timer is started when the node has a
\* timeout and none is set, and [input] is returned.  The inputs are the
\* items 1, 2, ... in the order of the calls.
BatchRun ==
  /\ batchNode # NoBuilder
  /\ Len(batchNode.calls) < MaxBatchCalls
  /\ LET input == Len(batchNode.calls) + 1
         pushed == Append(batchNode.batchBuffer, input)
         full == BatchFull(pushed, batchNode.size)
     IN batchNode' =
          [batchNode EXCEPT
             !.batchBuffer = IF full THEN <<>> ELSE pushed,
             !.timer =
               IF full THEN "none"
               ELSE IF batchNode.variant = "async" /\ batchNode.timeout
                       /\ batchNode.timer = "none"
                      THEN "pending"
                      ELSE @,
             !.calls = Append(@, [input |-> input,
                                  before |-> batchNode.batchBuffer,
                                  returned |-> IF full THEN pushed ELSE <<input>>])]
  /\ UNCHANGED <<semanticBuilder, pipelineBuilder, clusterBuilder, plugins, loops,
                 takeLog, handled, cluster, eventQueue, exec, orch, fiberExit,
                 emitted, invoked>>

\* the timer fires: a non-empty buffer is replaced by an empty one and
\* timeoutId reset; what the callback returns goes nowhere
BatchTimeout ==
  /\ batchNode # NoBuilder
  /\ batchNode.timer = "pending"
  /\ batchNode' =
       IF Len(batchNode.batchBuffer) > 0
         THEN [batchNode EXCEPT !.batchBuffer = <<>>, !.timer = "none"]
         ELSE [batchNode EXCEPT !.timer = "fired"]
  /\ UNCHANGED <<semanticBuilder, pipelineBuilder, clusterBuilder, plugins, loops,
                 takeLog, handled, cluster, eventQueue, exec, orch, fiberExit,
                 emitted, invoked>>

NextBatch ==
  \/ \E variant \in BatchVariants : \E size \in 1..MaxBatchSize :
       \E timeout \in BOOLEAN : BatchNew(variant, size, timeout)
  \/ BatchRun
  \/ BatchTimeout

SpecBatch == InitPipelineBuilder /\ [][NextBatch]_vars

\* C38: every call of run appends its input to the buffer kept between the
\* calls; the call that brings the buffer to config.size returns the buffered
\* inputs in arrival order and empties the buffer, every other call returns
\* [input]; the buffer always holds fewer than config.size items.
C38_BufferBelowSize ==
  batchNode # NoBuilder =>
    /\ Len(batchNode.batchBuffer) < batchNode.size
    /\ \A c \in DOMAIN batchNode.calls :
         LET call == batchNode.calls[c]
         IN /\ Len(call.before) < batchNode.size
            /\ \A i \in DOMAIN call.before :
                 /\ call.before[i] < call.input
                 /\ i > 1 => call.before[i - 1] < call.before[i]
            /\ IF Len(call.before) + 1 = batchNode.size
                 THEN /\ call.returned = call.before \o <<call.input>>
                      /\ c = Len(batchNode.calls)
                           => batchNode.batchBuffer = <<>>
                      /\ c < Len(batchNode.calls)
                           => batchNode.calls[c + 1].before = <<>>
                 ELSE /\ call.returned = <<call.input>>
                      /\ c = Len(batchNode.calls) =>
                           batchNode.batchBuffer
                             \in {call.before \o <<call.input>>, <<>>}
                      /\ c < Len(batchNode.calls) =>
                           batchNode.calls[c + 1].before
                             \in {call.before \o <<call.input>>, <<>>}

\* a node of size 3 has returned [1], [2], the full batch [1, 2, 3], and [4]
C38_Witness ==
  /\ batchNode # NoBuilder
  /\ batchNode.size = 3
  /\ Len(batchNode.calls) = 4
  /\ batchNode.calls[3].returned = <<1, 2, 3>>
  /\ batchNode.calls[4].returned = <<4>>
  /\ batchNode.batchBuffer = <<4>>

\* C39: every input item is in exactly one of the arrays the node returned.
C39_NoItemTwice ==
  batchNode # NoBuilder =>
    \A i \in DOMAIN batchNode.calls :
      Cardinality({j \in DOMAIN batchNode.calls :
                     \E k \in DOMAIN batchNode.calls[j].returned :
                       batchNode.calls[j].returned[k] = batchNode.calls[i].input}) = 1

====
